---- MODULE Spec2Model ----
(***************************************************************************)
(* State-machine model of the MIDICaptain Remedy control layer             *)
(* (remedy/main.py, class MidiCaptainApp): toggle/page coordinator,        *)
(* encoder accumulator, device CC / SysEx feedback and the deferred MIDI   *)
(* event queue of the main loop; the tuner's note name and cents follow    *)
(* MIDI_parse of the HK firmware (HKAudio_firmware/src/code.py).           *)
(***************************************************************************)
EXTENDS Integers, Sequences, FiniteSets, TLC

VARIABLES
    pages,               \* self._pages, the discovered page list
    current_page,        \* self._current_page ("none" = None)
    page_cfg,            \* which page self.config._page holds ("empty" = {})
    toggle,              \* the toggle.<button> keys of self._state
    encoder,             \* the encoder.<bind> keys of self._state
    cc_state,            \* the cc.<n> keys of self._state
    current_program,     \* self._state['current_program'] (-1 = key absent)
    has_cc_map,          \* hasattr(self, '_cc_to_button')
    cc_to_button,        \* self._cc_to_button
    leds,                \* colour last set on each button LED
    menu_active,         \* self.menu.active
    tuner_active,        \* self.tuner.state.active
    tuner_display_ready, \* self._tuner_display_ready
    tuner_inited,        \* tuner.init_display() has completed
    init_attempts,       \* calls of tuner.init_display() made so far
    setlist,             \* self._setlist ("none" or a setlist id)
    song_index,          \* self._song_index
    home_title,          \* hasattr(self, '_home_title')
    note_name,           \* tuner.state.note_name (NoteName in the HK firmware)
    cents,               \* tuner.state.cents (Pitch in the HK firmware)
    running,             \* run() is still inside its while loop
    ev,                  \* the event handled by the last step
    sent,                \* MIDI messages sent by the last step, in order
    refreshed,           \* buttons whose LED colour the last step set
    page_req,            \* the page-change request of the last step and its outcome
    queue,               \* EventDispatcher FIFO of queued events
    delivered,           \* log of events delivered to handlers, in order
    phase,               \* position of run() inside one loop iteration
    arrivals,            \* events raised so far in this loop iteration
    failed,              \* arrival numbers whose handler raised, this iteration
    faults,              \* handler failures the dispatcher has met so far
    hk_pressed,          \* HK firmware: switches held down (switch[i].switch.value low)
    hk_state,            \* HK firmware: switches with switch[i].state set
    hk_tuner,            \* HK firmware: TunerMode
    hk_sent,             \* HK firmware: messages sent by the last step, in order
    hk_enc               \* HK firmware: encoder_value, v[13], encoder.position -
                         \* last_position, and the CC 11 value last received

vars == <<pages, init_attempts, hk_pressed, hk_state, hk_tuner, hk_sent, hk_enc,
          current_page, page_cfg, toggle, encoder, cc_state, current_program,
          has_cc_map, cc_to_button, leds, menu_active, tuner_active,
          tuner_display_ready, tuner_inited, setlist, song_index,
          home_title, note_name, cents, running,
          ev, sent, refreshed, page_req, queue, delivered, phase, arrivals,
          failed, faults>>

appVars == <<pages, init_attempts, current_page, page_cfg, toggle, encoder, cc_state, current_program,
             has_cc_map, cc_to_button, leds, menu_active, tuner_active,
             tuner_display_ready, tuner_inited, setlist, song_index,
             home_title, note_name, cents,
             ev, sent, refreshed, page_req>>

loopVars == <<queue, delivered, phase, arrivals, failed, faults>>

hkVars == <<hk_pressed, hk_state, hk_tuner, hk_sent, hk_enc>>

-----------------------------------------------------------------------------
(* Configuration data read through the Config collaborator.                *)

\* Button ids in the order the LED / reverse-map loops visit them.
ButtonOrder == <<"1", "2", "3", "4", "A", "B", "C", "D", "up", "down">>

ButtonIds == {ButtonOrder[i] : i \in 1..Len(ButtonOrder)}

\* Pages returned by config.discover_pages(), in order.
Pages == <<"p1", "p2", "p3">>

PageIds == {Pages[i] : i \in 1..Len(Pages)}

\* A page id no page file exists for: config.load_page raises ConfigError.
GhostPage == "ghost"

NoAction == [type |-> "none", cc |-> -1, value |-> "none",
             page |-> "none", direction |-> "none", actions |-> <<>>]

CcAction(c, v) == [NoAction EXCEPT !.type = "midi_cc", !.cc = c, !.value = v]

PcAction(p) == [NoAction EXCEPT !.type = "midi_pc", !.cc = p]

PageAction(p, d) == [NoAction EXCEPT !.type = "page_change", !.page = p,
                                     !.direction = d]

TunerAction == [NoAction EXCEPT !.type = "tuner_toggle"]

BogusAction == [NoAction EXCEPT !.type = "bogus"]

SeqAction(list) == [NoAction EXCEPT !.type = "sequence", !.actions = list]

NoButton == [present |-> FALSE, on_press |-> NoAction, on_release |-> NoAction,
             on_long_press |-> NoAction]

Btn(p, r, l) == [present |-> TRUE, on_press |-> p, on_release |-> r,
                 on_long_press |-> l]

\* Button sections of the three page files of the model.
PageButtons(page) ==
    CASE page = "p1" ->
           [b \in ButtonIds |->
              CASE b = "1"    -> Btn(CcAction(20, "toggle"), NoAction, NoAction)
                [] b = "2"    -> Btn(CcAction(21, "toggle"), NoAction, NoAction)
                [] b = "A"    -> Btn(TunerAction, NoAction, NoAction)
                [] b = "B"    -> Btn(CcAction(30, "127"), CcAction(30, "0"),
                                     PageAction("none", "next"))
                [] b = "up"   -> Btn(PageAction("none", "next"), NoAction, NoAction)
                [] b = "down" -> Btn(PageAction("none", "prev"), NoAction,
                                     CcAction(31, "127"))
                [] OTHER      -> NoButton]
      [] page = "p2" ->
           [b \in ButtonIds |->
              CASE b = "1"    -> Btn(CcAction(22, "toggle"), NoAction, NoAction)
                [] b = "2"    -> Btn(PcAction(5), NoAction, NoAction)
                [] b = "A"    -> Btn(PageAction("p2", "none"), NoAction, NoAction)
                [] b = "B"    -> Btn(PageAction(GhostPage, "none"), NoAction, NoAction)
                [] b = "up"   -> Btn(PageAction("none", "next"), NoAction, NoAction)
                [] b = "down" -> Btn(PageAction("none", "prev"), NoAction, NoAction)
                [] OTHER      -> NoButton]
      [] page = "p3" ->
           [b \in ButtonIds |->
              CASE b = "1"    -> Btn(SeqAction(<<CcAction(40, "127"), PcAction(3)>>),
                                     NoAction, NoAction)
                [] b = "2"    -> Btn(CcAction(20, "toggle"), NoAction, NoAction)
                [] b = "A"    -> Btn(BogusAction, NoAction, NoAction)
                [] b = "B"    -> Btn(NoAction, NoAction, NoAction)
                [] b = "up"   -> Btn(PageAction("none", "next"), NoAction, NoAction)
                [] b = "down" -> Btn(PageAction("none", "prev"), NoAction, NoAction)
                [] OTHER      -> NoButton]
      [] OTHER -> [b \in ButtonIds |-> NoButton]

\* config.get_button_config(button_id) against the page held in config._page.
GetButtonConfig(cfg, b) ==
    IF b \in ButtonIds THEN PageButtons(cfg)[b] ELSE NoButton

\* Encoder section of a page: config.get_encoder_config().
EncoderConfig(cfg) ==
    CASE cfg = "p1" -> [present |-> TRUE, bind |-> "midi_cc:7", fallback_cc |-> 74]
      [] cfg = "p2" -> [present |-> TRUE, bind |-> "sysex:gain", fallback_cc |-> -1]
      [] cfg = "p3" -> [present |-> TRUE, bind |-> "volume", fallback_cc |-> -1]
      [] OTHER      -> [present |-> FALSE, bind |-> "", fallback_cc |-> -1]

\* fallback.get('cc', 7): -1 stands for a section without the key.
EncoderCc(encoder_config) ==
    IF encoder_config.fallback_cc = -1 THEN 7 ELSE encoder_config.fallback_cc

\* Expression-pedal sections of a page: config.get_expression_config(pedal_id).
ExpressionConfig(cfg, pedal) ==
    CASE cfg = "p1" /\ pedal = 1 -> [present |-> TRUE, bind |-> "midi_cc:1", cc |-> -1]
      [] cfg = "p1" /\ pedal = 2 -> [present |-> TRUE, bind |-> "sysex:gain", cc |-> -1]
      [] cfg = "p2" /\ pedal = 1 -> [present |-> TRUE, bind |-> "volume", cc |-> -1]
      [] cfg = "p2" /\ pedal = 2 -> [present |-> TRUE, bind |-> "sysex:nope", cc |-> -1]
      [] cfg = "p3" /\ pedal = 1 -> [present |-> TRUE, bind |-> "sysex:level", cc |-> -1]
      [] cfg = "p3" /\ pedal = 2 -> [present |-> TRUE, bind |-> "midi_cc:11", cc |-> 11]
      [] OTHER -> [present |-> FALSE, bind |-> "", cc |-> -1]

\* ExpressionCc with the configured number ignored.
ExpressionCc_Fixed(exp_config) == 1

\* exp_config.get('cc', 1): -1 stands for a section without the key.
ExpressionCc(exp_config) == IF exp_config.cc = -1 THEN 1 ELSE exp_config.cc

\* bind.startswith('sysex:') and bind[6:] for the bind strings of the model.
StartsWithSysex(bind) == bind \in {"sysex:gain", "sysex:nope", "sysex:level"}

StartsWithMidiCc(bind) == bind \in {"midi_cc:7", "midi_cc:1", "midi_cc:11"}

ParamNameOf(bind) ==
    CASE bind = "sysex:gain" -> "gain"
      [] bind = "sysex:level" -> "level"
      [] bind = "sysex:nope" -> "nope"
      [] OTHER -> ""

\* config._profile['sysex']['parameters'], in dict order.
ParamOrder == <<"boost", "gain", "mute", "solo", "level">>

NoParam == [present |-> FALSE, type |-> "none", address |-> <<>>,
            min |-> 0, max |-> 100, has_alias |-> FALSE, cc_alias |-> -1]

SysexParam(name) ==
    CASE name = "boost" -> [present |-> TRUE, type |-> "bool", address |-> <<0, 0, 1, 0>>,
                            min |-> 0, max |-> 1, has_alias |-> TRUE, cc_alias |-> 20]
      [] name = "gain"  -> [present |-> TRUE, type |-> "int", address |-> <<0, 0, 2, 0>>,
                            min |-> 0, max |-> 100, has_alias |-> TRUE, cc_alias |-> 22]
      [] name = "mute"  -> [present |-> TRUE, type |-> "bool", address |-> <<0, 0, 3, 0>>,
                            min |-> 0, max |-> 1, has_alias |-> FALSE, cc_alias |-> -1]
      [] name = "solo"  -> [present |-> TRUE, type |-> "bool", address |-> <<0, 0, 4, 0>>,
                            min |-> 0, max |-> 1, has_alias |-> TRUE, cc_alias |-> 22]
      [] name = "level" -> [present |-> TRUE, type |-> "int", address |-> <<96, 0, 0, 0>>,
                            min |-> 0, max |-> 100, has_alias |-> FALSE, cc_alias |-> -1]
      [] OTHER -> NoParam

\* self.config.midi_channel, the global default channel.
MidiChannel == 1

-----------------------------------------------------------------------------
(* The application state as one value, so that a handler and everything it *)
(* calls compose as in the source.                                         *)

\* What the last step asked of _on_page_change and how the request ended:
\* "noop" (an early return), "ok" (page loaded) or "failed" (ConfigError).
NoRequest == [page_name |-> "none", direction |-> "none", result |-> "none"]

Cur == [pages |-> pages, attempts |-> init_attempts,
        page |-> current_page, cfg |-> page_cfg, toggle |-> toggle,
        encoder |-> encoder, cc_state |-> cc_state, program |-> current_program,
        has_map |-> has_cc_map, map |-> cc_to_button, leds |-> leds,
        menu |-> menu_active, tuner |-> tuner_active,
        tready |-> tuner_display_ready, tinit |-> tuner_inited,
        setlist |-> setlist, song |-> song_index, title |-> home_title,
        note |-> note_name, cents |-> cents,
        sent |-> <<>>, refreshed |-> {}, handled |-> FALSE,
        consumed |-> FALSE, raised |-> FALSE,
        page_req |-> NoRequest]

Commit(s) ==
    /\ pages' = s.pages
    /\ init_attempts' = s.attempts
    /\ UNCHANGED hkVars
    /\ current_page' = s.page
    /\ page_cfg' = s.cfg
    /\ toggle' = s.toggle
    /\ encoder' = s.encoder
    /\ cc_state' = s.cc_state
    /\ current_program' = s.program
    /\ has_cc_map' = s.has_map
    /\ cc_to_button' = s.map
    /\ leds' = s.leds
    /\ menu_active' = s.menu
    /\ tuner_active' = s.tuner
    /\ tuner_display_ready' = s.tready
    /\ tuner_inited' = s.tinit
    /\ setlist' = s.setlist
    /\ song_index' = s.song
    /\ home_title' = s.title
    /\ note_name' = s.note
    /\ cents' = s.cents
    /\ sent' = s.sent
    /\ refreshed' = s.refreshed
    /\ page_req' = s.page_req

\* dict.get(key, default) and dict[key] = value on a partial function.
Get(f, k, default) == IF k \in DOMAIN f THEN f[k] ELSE default

Put(f, k, v) == [x \in DOMAIN f \cup {k} |-> IF x = k THEN v ELSE f[x]]

\* self._state.get(f'toggle.{button}', False)
ToggleOf(s, b) == Get(s.toggle, b, FALSE)

Msg(t, ch, n, v, addr, data) ==
    [type |-> t, channel |-> ch, num |-> n, value |-> v, addr |-> addr, data |-> data,
     checksum |-> 0]

\* sum(bytes)
RECURSIVE SumBytes(_)
SumBytes(bytes) == IF bytes = <<>> THEN 0 ELSE Head(bytes) + SumBytes(Tail(bytes))

\* Checksum without the complement: the sum itself, mod 0x80.
Checksum_SumOnly(addr, data) == SumBytes(addr \o data) % 128

\* The trailing byte of send_sysex_param / query_sysex_param:
\* 0x80 - (sum(address + data) mod 0x80).
Checksum(addr, data) == 128 - (SumBytes(addr \o data) % 128)

\* self.midi.send_cc(channel, cc, value)
SendCc(s, ch, c, v) ==
    [s EXCEPT !.sent = Append(@, Msg("cc", ch, c, v, <<>>, <<>>))]

SendPc(s, ch, p) ==
    [s EXCEPT !.sent = Append(@, Msg("pc", ch, p, 0, <<>>, <<>>))]

\* self.midi.send_sysex_param(address, data)
SendSysexParam(s, addr, data) ==
    [s EXCEPT !.sent = Append(@, [Msg("sysex", 0, 18, 0, addr, data)
                                     EXCEPT !.checksum = Checksum(addr, data)])]

-----------------------------------------------------------------------------
(* LEDs                                                                    *)

LedColour(s, b) ==
    IF GetButtonConfig(s.cfg, b).present
    THEN (IF ToggleOf(s, b) THEN "full" ELSE "dim")
    ELSE "off"

\* _update_button_led(button_id)
UpdateButtonLed(s, b) ==
    [s EXCEPT !.leds = Put(@, b, LedColour(s, b)),
              !.refreshed = @ \cup {b}]

\* _update_leds(): every button of the fixed list, then one show().
UpdateLeds(s) ==
    [s EXCEPT !.leds = [b \in DOMAIN s.leds |->
                          IF b \in ButtonIds THEN LedColour(s, b) ELSE s.leds[b]],
              !.refreshed = @ \cup ButtonIds]

-----------------------------------------------------------------------------
(* Device sync                                                             *)

\* The loop of _build_cc_button_map from position i on: a later button with
\* the same CC overwrites an earlier one.
RECURSIVE CcMapFrom(_, _, _)
CcMapFrom(cfg, i, m) ==
    IF i > Len(ButtonOrder) THEN m
    ELSE LET b == ButtonOrder[i]
             c == GetButtonConfig(cfg, b)
             on_press == c.on_press
         IN IF /\ c.present
               /\ on_press.type = "midi_cc"
               /\ on_press.value = "toggle"
               /\ on_press.cc # -1
            THEN CcMapFrom(cfg, i + 1, Put(m, on_press.cc, b))
            ELSE CcMapFrom(cfg, i + 1, m)

\* BuildCcButtonMap without the reset of the map: old entries survive.
BuildCcButtonMap_Keep(s) ==
    [s EXCEPT !.has_map = TRUE, !.map = CcMapFrom(s.cfg, 1, s.map)]

\* _build_cc_button_map()
BuildCcButtonMap(s) ==
    [s EXCEPT !.has_map = TRUE, !.map = CcMapFrom(s.cfg, 1, [x \in {} |-> ""])]

\* The assignment of _sync_cc_to_toggle: the toggle entry the device reports.
SyncedToggle(value) == value > 63

\* _sync_cc_to_toggle(cc, value)
SyncCcToToggle(s, c, value) ==
    IF ~s.has_map THEN s
    ELSE IF c \in DOMAIN s.map
         THEN LET btn_id == s.map[c]
              IN UpdateButtonLed([s EXCEPT !.toggle = Put(@, btn_id, SyncedToggle(value))],
                                 btn_id)
         ELSE s

\* Python's raw[a:b] for 0 <= a on a sequence (b may be negative).
Slice(raw, a, b) ==
    LET hi == IF b < 0 THEN Len(raw) + b ELSE IF b > Len(raw) THEN Len(raw) ELSE b
    IN IF hi <= a THEN <<>> ELSE SubSeq(raw, a + 1, hi)

\* The parameter loop of _handle_sysex_response from position i on.
RECURSIVE SysexMatchFrom(_, _, _, _)
SysexMatchFrom(s, i, addr, param_data) ==
    IF i > Len(ParamOrder) THEN s
    ELSE LET param_cfg == SysexParam(ParamOrder[i])
         IN IF /\ param_cfg.type = "bool"
               /\ param_cfg.address = addr
               /\ param_cfg.has_alias
               /\ param_data # <<>>
            THEN SysexMatchFrom(SyncCcToToggle(s, param_cfg.cc_alias, param_data[1] * 127),
                                i + 1, addr, param_data)
            ELSE SysexMatchFrom(s, i + 1, addr, param_data)

\* HandleSysexResponse without the test of the operation byte.
HandleSysexResponse_AnyOp(s, raw) ==
    IF Len(raw) < 10 THEN s
    ELSE SysexMatchFrom(s, 1, Slice(raw, 6, 10), Slice(raw, 10, -1))

\* _handle_sysex_response(data); raw is data['data'] as a byte sequence.
HandleSysexResponse(s, raw) ==
    IF Len(raw) < 10 THEN s
    ELSE IF Len(ParamOrder) = 0 THEN s
    ELSE LET op == raw[6]
         IN IF op = 18
            THEN SysexMatchFrom(s, 1, Slice(raw, 6, 10), Slice(raw, 10, -1))
            ELSE s

-----------------------------------------------------------------------------
(* Page and mode management                                                *)

\* config.load_page(target) succeeds for the page files that exist.
LoadOk(pgs, target) == \E i \in 1..Len(pgs) : pgs[i] = target

\* self._pages.index(self._current_page), 0 on ValueError (0-based).
PageIndex(pgs, page) ==
    IF \E i \in 1..Len(pgs) : pgs[i] = page
    THEN (CHOOSE i \in 1..Len(pgs) :
             pgs[i] = page /\ \A j \in 1..(i - 1) : pgs[j] # page) - 1
    ELSE 0

\* StepIndex stopping at the ends of the list instead of wrapping.
StepIndex_NoWrap(idx, direction, n) ==
    CASE direction = "next" -> IF idx + 1 > n - 1 THEN idx ELSE idx + 1
      [] direction = "prev" -> IF idx - 1 < 0 THEN idx ELSE idx - 1
      [] OTHER -> idx

\* The index arithmetic of _on_page_change for a direction token over a
\* list of n pages.
StepIndex(idx, direction, n) ==
    CASE direction = "next" -> (idx + 1) % n
      [] direction = "prev" -> (idx - 1) % n
      [] OTHER -> idx

\* ClearToggles with the deletion loop missing.
ClearToggles_Keep(tg) == tg

\* The key loop of _on_page_change: every toggle.* key is deleted.
ClearToggles(tg) == [x \in {} |-> FALSE]

\* Reselects with the test missing: every resolved request reloads.
Reselects_Never(target, page, page_name) == FALSE

\* Reselects without the test for an explicit page id.
Reselects_AnyRequest(target, page, page_name) == target = page

\* if target == self._current_page and page_name is None: return
Reselects(target, page, page_name) == target = page /\ page_name = "none"

\* OnPageChange deleting the encoder.* keys together with the toggle.* keys.
OnPageChange_ResetEncoder(s, page_name, direction) ==
    LET req == [page_name |-> page_name, direction |-> direction, result |-> "noop"]
        s0 == [s EXCEPT !.page_req = req]
    IN IF page_name = "none" /\ (direction = "none" \/ Len(s.pages) = 0) THEN s0
       ELSE LET target == IF page_name # "none" THEN page_name
                          ELSE s.pages[StepIndex(PageIndex(s.pages, s.page),
                                                 direction, Len(s.pages)) + 1]
            IN IF Reselects(target, s.page, page_name) THEN s0
               ELSE LET s1 == [s0 EXCEPT !.toggle = ClearToggles(@), !.cfg = "empty",
                                         !.encoder = [x \in {} |-> 0]]
                    IN IF LoadOk(s.pages, target)
                       THEN UpdateLeds(BuildCcButtonMap(
                                [s1 EXCEPT !.cfg = target, !.page = target,
                                           !.page_req.result = "ok"]))
                       ELSE [s1 EXCEPT !.page_req.result = "failed"]

\* _on_page_change(page_name, direction)
OnPageChange(s, page_name, direction) ==
    LET req == [page_name |-> page_name, direction |-> direction, result |-> "noop"]
        s0 == [s EXCEPT !.page_req = req]
    IN IF page_name = "none" /\ (direction = "none" \/ Len(s.pages) = 0) THEN s0
       ELSE LET target == IF page_name # "none" THEN page_name
                          ELSE s.pages[StepIndex(PageIndex(s.pages, s.page),
                                                 direction, Len(s.pages)) + 1]
            IN IF Reselects(target, s.page, page_name) THEN s0
               ELSE LET s1 == [s0 EXCEPT !.toggle = ClearToggles(@), !.cfg = "empty"]
                    IN IF LoadOk(s.pages, target)
                       THEN UpdateLeds(BuildCcButtonMap(
                                [s1 EXCEPT !.cfg = target, !.page = target,
                                           !.page_req.result = "ok"]))
                       ELSE [s1 EXCEPT !.page_req.result = "failed"]

\* ToggleTuner with the ready flag set only once init_display has succeeded:
\* a failed acquisition is tried again by the next request.
ToggleTuner_Retry(s, mem_ok) ==
    LET first == ~s.tready
        s1 == [s EXCEPT !.attempts = IF first THEN @ + 1 ELSE @]
    IN IF first /\ ~mem_ok THEN s1
       ELSE LET s2 == [s1 EXCEPT !.tready = TRUE,
                                 !.tinit = IF first THEN TRUE ELSE @,
                                 !.tuner = ~@]
            IN IF s2.tuner THEN s2 ELSE UpdateLeds(s2)

\* _toggle_tuner(); mem_ok = tuner.init_display does not raise MemoryError.
ToggleTuner(s, mem_ok) ==
    LET first == ~s.tready
        s1 == [s EXCEPT !.tready = TRUE,
                        !.attempts = IF first THEN @ + 1 ELSE @]
    IN IF first /\ ~mem_ok THEN s1
       ELSE LET s2 == [s1 EXCEPT !.tinit = IF first THEN TRUE ELSE @,
                                 !.tuner = ~@]
            IN IF s2.tuner THEN s2 ELSE UpdateLeds(s2)

-----------------------------------------------------------------------------
(* Actions built from configuration (Action.from_config / Action.execute)  *)

\* A fixed 'value' of a midi_cc action as a number.
ValNum(v) ==
    CASE v = "127" -> 127
      [] v = "0" -> 0
      [] OTHER -> 0

\* The CC value a 'toggle' action emits: 127 when the toggle entry of its
\* control reads true, 0 when it reads false.
ToggleCcValue(s, b) == IF ToggleOf(s, b) THEN 127 ELSE 0

RECURSIVE Execute(_, _, _, _)
RECURSIVE ExecuteAll(_, _, _, _)

\* action.execute(context) for the action built from fragment a; b is the
\* control the action belongs to ("" for a setlist enter-action).
Execute(s, a, b, mem_ok) ==
    CASE a.type = "midi_cc" ->
           SendCc(s, MidiChannel, a.cc,
                  IF a.value = "toggle" THEN ToggleCcValue(s, b) ELSE ValNum(a.value))
      [] a.type = "midi_pc" -> SendPc(s, MidiChannel, a.cc)
      [] a.type = "page_change" -> OnPageChange(s, a.page, a.direction)
      [] a.type = "tuner_toggle" -> ToggleTuner(s, mem_ok)
      [] a.type = "sequence" -> ExecuteAll(s, a.actions, b, mem_ok)
      [] OTHER -> s

\* Sub-actions (or enter-actions) executed in order.
ExecuteAll(s, list, b, mem_ok) ==
    IF list = <<>> THEN s
    ELSE ExecuteAll(Execute(s, Head(list), b, mem_ok), Tail(list), b, mem_ok)

\* self._setlist.get('songs', []) of the setlist files of the model.
Songs(sl) ==
    IF sl = "s1"
    THEN << [name |-> "one",   on_enter |-> <<PcAction(1)>>],
            [name |-> "two",   on_enter |-> <<PcAction(2), PageAction("p2", "none")>>],
            [name |-> "three", on_enter |-> <<>>] >>
    ELSE <<>>

Min(a, b) == IF a < b THEN a ELSE b

Max(a, b) == IF a > b THEN a ELSE b

\* SongStep wrapping round the ends of the list.
SongStep_Wrap(idx, direction, n) ==
    CASE direction = "next" -> (idx + 1) % n
      [] direction = "prev" -> (idx - 1) % n
      [] OTHER -> idx

\* The index arithmetic of _navigate_setlist over a list of n songs.
SongStep(idx, direction, n) ==
    CASE direction = "next" -> Min(idx + 1, n - 1)
      [] direction = "prev" -> Max(idx - 1, 0)
      [] OTHER -> idx

\* _navigate_setlist(direction).  The assignment to _home_title.text at the
\* end allocates outside any try block: with mem_ok false it raises.
NavigateSetlist(s, direction, mem_ok) ==
    IF s.setlist = "none" THEN s
    ELSE LET songs == Songs(s.setlist)
         IN IF songs = <<>> THEN s
            ELSE LET idx == SongStep(s.song, direction, Len(songs))
                     s1 == [s EXCEPT !.song = idx]
                     s2 == ExecuteAll(s1, songs[idx + 1].on_enter, "", mem_ok)
                 IN IF s2.title /\ ~mem_ok
                    THEN [s2 EXCEPT !.raised = TRUE]
                    ELSE s2

-----------------------------------------------------------------------------
(* Event handlers                                                          *)

\* event.handled = True at the end of a handler; an exception raised on
\* the way leaves the handler before that line.
Handled(s) == IF s.raised THEN s ELSE [s EXCEPT !.handled = TRUE]

\* ActionConfig falling back to on_press when the kind has no action.
ActionConfig_PressFallback(button_config, action_type) ==
    CASE action_type = "release" /\ button_config.on_release.type # "none" ->
             button_config.on_release
      [] action_type = "long_press" /\ button_config.on_long_press.type # "none" ->
             button_config.on_long_press
      [] OTHER -> button_config.on_press

\* button_config.get(f'on_{action_type}')
ActionConfig(button_config, action_type) ==
    CASE action_type = "press" -> button_config.on_press
      [] action_type = "release" -> button_config.on_release
      [] action_type = "long_press" -> button_config.on_long_press

\* FlipToggle with the inversion lost: the entry is always set.
FlipToggle_AlwaysOn(s, button_id) ==
    [s EXCEPT !.toggle = Put(@, button_id, TRUE)]

\* Lines 278-281 of _handle_button_event: the toggle entry is inverted.
FlipToggle(s, button_id) ==
    [s EXCEPT !.toggle = Put(@, button_id, ~ToggleOf(s, button_id))]

\* _handle_button_event(event) below the menu and setlist branches.
RunButtonAction(s, button_id, action_type, mem_ok) ==
    LET button_config == GetButtonConfig(s.cfg, button_id)
    IN IF ~button_config.present THEN s
       ELSE LET action_config == ActionConfig(button_config, action_type)
                s1 == IF action_config.type = "none" THEN s
                      ELSE LET e == Execute(s, action_config, button_id, mem_ok)
                               f == IF action_type = "press" /\ action_config.value = "toggle"
                                    THEN FlipToggle(e, button_id)
                                    ELSE e
                           IN IF action_type = "press"
                              THEN UpdateButtonLed(f, button_id)
                              ELSE f
                s2 == IF action_type = "release"
                      THEN UpdateButtonLed(s1, button_id)
                      ELSE s1
            IN Handled(s2)

\* _handle_button_event(event)
HandleButtonEvent(s, button_id, action_type, mem_ok) ==
    IF button_id = "encoder" /\ action_type = "long_press"
    THEN Handled([s EXCEPT !.menu = ~@])
    ELSE IF button_id = "encoder" /\ action_type = "press" /\ s.menu
    THEN Handled(s)
    ELSE IF s.menu
    THEN Handled(s)
    ELSE IF s.setlist # "none" /\ action_type = "press" /\ button_id = "up"
    THEN Handled(NavigateSetlist(s, "next", mem_ok))
    ELSE IF s.setlist # "none" /\ action_type = "press" /\ button_id = "down"
    THEN Handled(NavigateSetlist(s, "prev", mem_ok))
    ELSE RunButtonAction(s, button_id, action_type, mem_ok)

\* Clamp wrapping into the 7-bit range instead of saturating.
Clamp_Wrap(v) == v % 128

\* max(0, min(127, current + delta))
Clamp(v) == Max(0, Min(127, v))

\* int(param_min + (value / 127) * (param_max - param_min)), param_max >= param_min >= 0
Scale(value, param_min, param_max) ==
    param_min + (value * (param_max - param_min)) \div 127

\* HandleEncoderEvent storing the accumulator under the toggle.* prefix.
HandleEncoderEvent_ToggleKey(s, delta) ==
    IF delta = 0 \/ s.menu \/ ~EncoderConfig(s.cfg).present
       \/ EncoderConfig(s.cfg).bind = ""
    THEN s
    ELSE Handled([s EXCEPT !.toggle = Put(@, EncoderConfig(s.cfg).bind,
                      Clamp(Get(s.encoder, EncoderConfig(s.cfg).bind, 64) + delta) > 63)])

\* HandleEncoderEvent without the routing to the menu.
HandleEncoderEvent_NoMenu(s, delta) ==
    IF delta = 0 \/ ~EncoderConfig(s.cfg).present THEN s
    ELSE LET bind == EncoderConfig(s.cfg).bind
             new_value == Clamp(Get(s.encoder, bind, 64) + delta)
         IN IF bind = "" THEN Handled(s)
            ELSE Handled(SendCc([s EXCEPT !.encoder = Put(@, bind, new_value)],
                                MidiChannel, EncoderCc(EncoderConfig(s.cfg)), new_value))

\* _handle_encoder_event(event)
HandleEncoderEvent(s, delta) ==
    IF delta = 0 THEN s
    ELSE IF s.menu THEN Handled(s)
    ELSE LET encoder_config == EncoderConfig(s.cfg)
         IN IF ~encoder_config.present THEN s
            ELSE LET bind == encoder_config.bind
                 IN IF bind = "" THEN Handled(s)
                    ELSE LET new_value == Clamp(Get(s.encoder, bind, 64) + delta)
                             s1 == [s EXCEPT !.encoder = Put(@, bind, new_value)]
                             param == SysexParam(ParamNameOf(bind))
                         IN IF StartsWithSysex(bind)
                            THEN IF param.present
                                 THEN Handled(SendSysexParam(s1, param.address,
                                          <<Scale(new_value, param.min, param.max)>>))
                                 ELSE Handled(s1)
                            ELSE Handled(SendCc(s1, MidiChannel,
                                                EncoderCc(encoder_config), new_value))

\* _handle_expression_event(event)
HandleExpressionEvent(s, pedal_id, value) ==
    LET exp_config == ExpressionConfig(s.cfg, pedal_id)
    IN IF ~exp_config.present THEN s
       ELSE LET bind == exp_config.bind
                param == SysexParam(ParamNameOf(bind))
            IN IF bind = "" THEN Handled(s)
               ELSE IF StartsWithSysex(bind)
               THEN IF param.present
                    THEN Handled(SendSysexParam(s, param.address,
                                     <<Scale(value, param.min, param.max)>>))
                    ELSE Handled(s)
               ELSE IF StartsWithMidiCc(bind)
               THEN Handled(SendCc(s, MidiChannel, ExpressionCc(exp_config), value))
               ELSE Handled(s)

\* NoteNames of the HK firmware, the 12 pitch classes from C to B.
NoteNames == <<"C", "C#", "D", "Eb", "E", "F", "F#", "G", "G#", "A", "Bb", "B">>

\* The note name shown while no note sounds.
Placeholder == "----"

\* int(x / y) for y > 0: Python's int() drops the fraction, towards zero.
TruncDiv(x, y) == IF x >= 0 THEN x \div y ELSE -((-x) \div y)

\* NoteNames[NoteNumber % 12] + str(int(NoteNumber / 12) - 1)
NoteNameOf_NoOffset(n) == NoteNames[(n % 12) + 1] \o ToString(TruncDiv(n, 12))

NoteNameOf(n) == NoteNames[(n % 12) + 1] \o ToString(TruncDiv(n, 12) - 1)

\* Cents with the limits of the display left out.
ClampCents_Off(p) == p

\* max(-29, min(29, newPitch))
ClampCents(p) == Max(-29, Min(29, p))

\* int((pitch_bend - 8192) / 8192 * 200), then limited to -29..29
CentsOf(pitch_bend) == ClampCents(TruncDiv((pitch_bend - 8192) * 200, 8192))

\* tuner.process_midi_message with the active test left out.
TunerConsumes_Always(s, midi_type) ==
    midi_type \in {"note_on", "note_off", "pitch_bend"}

\* tuner.process_midi_message(midi_type, data): consumed only while active
\* and only for note_on / note_off / pitch_bend.
TunerConsumes(s, midi_type) ==
    s.tuner /\ midi_type \in {"note_on", "note_off", "pitch_bend"}

\* What a consumed message does to the tuner state: the NoteOn, NoteOff
\* and PitchBend branches of MIDI_parse.  NoteOff resets Pitch only inside
\* the test that the name is not the placeholder already.
TunerParse(s, m) ==
    CASE m.type = "note_on" -> [s EXCEPT !.note = NoteNameOf(m.a)]
      [] m.type = "note_off" ->
            IF s.note # Placeholder
            THEN [s EXCEPT !.note = Placeholder, !.cents = 0]
            ELSE s
      [] m.type = "pitch_bend" -> [s EXCEPT !.cents = CentsOf(m.a)]
      [] OTHER -> s

MidiMsg(t, a, b, raw) == [type |-> t, a |-> a, b |-> b, raw |-> raw]

\* _handle_midi_event(event)
HandleMidiEvent(s, m) ==
    IF TunerConsumes(s, m.type)
    THEN Handled([TunerParse(s, m) EXCEPT !.consumed = TRUE])
    ELSE CASE m.type = "cc" ->
                Handled(SyncCcToToggle([s EXCEPT !.cc_state = Put(@, m.a, m.b)], m.a, m.b))
           [] m.type = "pc" -> Handled([s EXCEPT !.program = m.a])
           [] m.type = "sysex" -> Handled(HandleSysexResponse(s, m.raw))
           [] OTHER -> Handled(s)

-----------------------------------------------------------------------------
(* Inputs                                                                  *)

ActionTypes == {"press", "release", "long_press"}

\* Buttons of the toggle / page core.
CoreButtons == {"1", "2", "B", "up", "down"}

\* Every button id the hardware reports ("3" has no configuration).
AllButtons == CoreButtons \cup {"3", "A", "encoder"}

\* Encoder deltas of one poll: a fine step either way and a sweep either way.
FineStep == 50

Sweep == 200

Deltas == {-Sweep, -FineStep, FineStep, Sweep}

PedalIds == {1, 2}

PedalValues == {0, 64, 127}

\* A DT1-shaped payload as _handle_sysex_response reads it:
\* [device_id, model_id(4), op, addr(4), data..., checksum].
Payload(op, addr, data) == <<16, 0, 0, 0, 51, op>> \o addr \o data \o <<0>>

SysexInputs ==
    { Payload(18, <<0, 0, 1, 0>>, <<1>>),
      Payload(18, <<0, 0, 1, 0>>, <<0>>),
      Payload(18, <<0, 0, 1, 0>>, <<>>),
      Payload(18, <<0, 0, 2, 0>>, <<1>>),
      Payload(18, <<0, 0, 3, 0>>, <<1>>),
      Payload(18, <<0, 0, 4, 0>>, <<2>>),
      Payload(17, <<0, 0, 1, 0>>, <<1>>),
      <<16, 0, 0, 0, 51, 18, 0, 0, 1>> }

CcInputs ==
    { MidiMsg("cc", 20, 63, <<>>), MidiMsg("cc", 20, 64, <<>>),
      MidiMsg("cc", 22, 127, <<>>) }

FeedbackInputs ==
    CcInputs \cup {MidiMsg("pc", 3, 0, <<>>)}
             \cup {MidiMsg("sysex", 0, 0, raw) : raw \in SysexInputs}

NoteInputs == {MidiMsg(t, 60, 0, <<>>) : t \in {"note_on", "note_off", "pitch_bend"}}

NoEvent == [kind |-> "init", id |-> "", action |-> "", a |-> 0, b |-> 0,
            raw |-> <<>>, handled |-> FALSE, was_on |-> FALSE, n_before |-> 0,
            repeat |-> FALSE, consumed |-> FALSE, raised |-> FALSE,
            after_fault |-> FALSE]

\* What identifies an event: its type and payload.
EventKey(e) == <<e.kind, e.id, e.action, e.a, e.b, e.raw>>

\* The record of a handled event e with result r: event.handled, the toggle
\* entry of the event's button and the number of toggle entries before the
\* step, and whether the step before delivered the same event.
Observed(e, r) ==
    [e EXCEPT !.handled = r.handled,
              !.was_on = Get(toggle, e.id, FALSE),
              !.n_before = Cardinality(DOMAIN toggle),
              !.repeat = (EventKey(e) = EventKey(ev)),
              !.consumed = r.consumed,
              !.raised = r.raised,
              !.after_fault = ev.raised]

-----------------------------------------------------------------------------
(* The application: state after __init__ and one action per handler        *)

\* State after __init__: the startup page is loaded, no toggle entry exists;
\* the reverse map exists only if startup.query_device and the profile's
\* sysex.enabled are both set; a setlist is loaded if startup names one.
AppInit ==
    /\ current_page = "p1"
    /\ page_cfg = "p1"
    /\ toggle = [x \in {} |-> FALSE]
    /\ encoder = [x \in {} |-> 0]
    /\ cc_state = [x \in {} |-> 0]
    /\ current_program = -1
    /\ has_cc_map \in BOOLEAN
    /\ cc_to_button = IF has_cc_map THEN CcMapFrom("p1", 1, [x \in {} |-> ""])
                      ELSE [x \in {} |-> ""]
    /\ leds = [b \in ButtonIds \cup {"encoder"} |->
                 IF GetButtonConfig("p1", b).present THEN "dim" ELSE "off"]
    /\ menu_active = FALSE
    /\ tuner_active = FALSE
    /\ tuner_display_ready = FALSE
    /\ tuner_inited = FALSE
    /\ init_attempts = 0
    /\ song_index = -1
    /\ note_name = Placeholder
    /\ cents = 0
    /\ running = TRUE
    /\ ev = NoEvent
    /\ sent = <<>>
    /\ refreshed = {}
    /\ page_req = NoRequest

LoopIdle ==
    /\ queue = <<>>
    /\ delivered = <<>>
    /\ phase = "buttons"
    /\ arrivals = 0
    /\ failed = {}
    /\ faults = 0

\* mem_ok = no allocation made while the event is handled raises
\* MemoryError.  Allocation can only fail where it is attempted: in
\* tuner.init_display, and in the title label of a setlist song.
MemChoices ==
    IF tuner_display_ready /\ ~(home_title /\ setlist # "none")
    THEN {TRUE} ELSE BOOLEAN

\* The dispatcher letting a handler's exception pass to its caller.
DispatchOutcome_Propagate(raised) == IF raised THEN "raised" ELSE "ok"

\* EventDispatcher calling a handler: a handler that raises aborts the
\* delivery of that one event and the exception goes no further.
DispatchOutcome(raised) == IF raised THEN "caught" ELSE "ok"

\* main(): an exception that leaves run() is printed, deinit() follows and
\* the program ends; otherwise the while loop goes on.
StillRunning(outcome) == outcome # "raised"

\* run() after a handler called through emit() has returned or raised.
AfterHandler(r) ==
    /\ running' = StillRunning(DispatchOutcome(r.raised))
    /\ UNCHANGED loopVars

\* events.emit(ButtonEvent(button_name, action)) for a button of B
ButtonEvent(B) ==
    /\ running
    /\ \E b \in B, k \in ActionTypes, mem_ok \in MemChoices :
        LET r == HandleButtonEvent(Cur, b, k, mem_ok)
        IN /\ Commit(r)
           /\ ev' = Observed([NoEvent EXCEPT !.kind = "button", !.id = b,
                                             !.action = k], r)
           /\ AfterHandler(r)

\* events.emit(EncoderEvent(encoder_delta)) for a delta of D
EncoderEvent(D) ==
    /\ running
    /\ \E d \in D :
        LET r == HandleEncoderEvent(Cur, d)
        IN /\ Commit(r)
           /\ ev' = Observed([NoEvent EXCEPT !.kind = "encoder", !.a = d], r)
           /\ AfterHandler(r)

\* events.emit(ExpressionEvent(pedal_id, value))
ExpressionEvent(P, V) ==
    /\ running
    /\ \E p \in P, v \in V :
        LET r == HandleExpressionEvent(Cur, p, v)
        IN /\ Commit(r)
           /\ ev' = Observed([NoEvent EXCEPT !.kind = "expression", !.a = p,
                                             !.b = v], r)
           /\ AfterHandler(r)

\* A MidiEvent of M delivered to _handle_midi_event.
MidiEvent(M) ==
    /\ running
    /\ \E m \in M :
        LET r == HandleMidiEvent(Cur, m)
        IN /\ Commit(r)
           /\ ev' = Observed([NoEvent EXCEPT !.kind = "midi", !.id = m.type,
                                             !.a = m.a, !.b = m.b, !.raw = m.raw], r)
           /\ AfterHandler(r)

\* Module level of the HK firmware: no switch latched, TunerMode = False.
HKInit ==
    /\ hk_pressed = {}
    /\ hk_state = {}
    /\ hk_tuner = FALSE
    /\ hk_sent = <<>>
    /\ hk_enc = [encoder_value |-> 38, v13 |-> 38, moved |-> 0, received |-> -1]

\* The toggle / page core: footswitches, device feedback, page changes.
Init ==
    /\ AppInit /\ pages = Pages /\ setlist = "none" /\ home_title = FALSE
    /\ LoopIdle /\ HKInit

Next == ButtonEvent(CoreButtons) \/ MidiEvent(FeedbackInputs)

Spec == Init /\ [][Next]_vars

\* Every kind of event the loop can deliver, with or without a setlist.
InitAll ==
    /\ AppInit /\ pages = Pages /\ setlist \in {"none", "s1"} /\ home_title = FALSE
    /\ LoopIdle /\ HKInit

\* The inputs of NextAll: one or two of every kind of event.
ButtonsAll == {"1", "A", "B", "up", "encoder"}

OneSweep == {Sweep}

FirstPedal == {1}

HalfWay == {64}

MidiAll == {MidiMsg("cc", 20, 64, <<>>), MidiMsg("note_off", 60, 0, <<>>)}

NextAll ==
    \/ ButtonEvent(ButtonsAll)
    \/ EncoderEvent(OneSweep)
    \/ ExpressionEvent(FirstPedal, HalfWay)
    \/ MidiEvent(MidiAll)

SpecAll == InitAll /\ [][NextAll]_vars

-----------------------------------------------------------------------------
(* Properties of the toggle / page coordinator                             *)

PressOf(e, b) == e.kind = "button" /\ e.id = b /\ e.action = "press"

\* Button b's on_press on the loaded page is a midi_cc action with value 'toggle'.
ToggleBound(cfg, b) ==
    LET c == GetButtonConfig(cfg, b)
    IN c.present /\ c.on_press.type = "midi_cc" /\ c.on_press.value = "toggle"

OneCc(msgs, v) == Len(msgs) = 1 /\ msgs[1].type = "cc" /\ msgs[1].value = v

\* C1: two consecutive presses of a toggle-configured button, nothing in
\* between, bring toggle.<button> back to its value before the first press,
\* and if the first press sent CC value 127 the second sends CC value 0.
C1_PressTwice ==
    [][\A b \in ButtonIds :
          (/\ PressOf(ev, b) /\ ev.handled /\ ToggleBound(page_cfg, b)
           /\ PressOf(ev', b) /\ ev'.handled)
          => /\ Get(toggle', b, FALSE) = ev.was_on
             /\ (OneCc(sent, 127) => OneCc(sent', 0))]_vars

C1_Witness ==
    /\ PressOf(ev, "1") /\ ev.repeat /\ ev.handled
    /\ ToggleBound(page_cfg, "1")
    /\ "1" \in DOMAIN toggle /\ toggle["1"] = TRUE
    /\ OneCc(sent, 0)

\* C2: a press of a toggle-configured button sends CC value 127 exactly when
\* toggle.<button> is true after the press and 0 exactly when it is false.
C2_SentFollowsToggle ==
    \A b \in ButtonIds :
        (PressOf(ev, b) /\ ev.handled /\ ToggleBound(page_cfg, b)
         /\ page_req.result = "none")
        => OneCc(sent, IF Get(toggle, b, FALSE) THEN 127 ELSE 0)

\* C4: a step that changes the current page leaves no toggle.* entry, and an
\* entry only comes into being by a press of its button or by device feedback.
C4_PageChangeClears ==
    [][/\ (current_page' # current_page) => DOMAIN toggle' = {}
       /\ \A b \in ButtonIds :
             (b \notin DOMAIN toggle /\ b \in DOMAIN toggle')
             => \/ PressOf(ev', b)
                \/ (ev'.kind = "midi" /\ ev'.id \in {"cc", "sysex"})]_vars

C4_Witness ==
    /\ page_req.result = "ok" /\ current_page = "p2"
    /\ ev.n_before = 2 /\ DOMAIN toggle = {}

\* C5: a page-change request either succeeds in full or, when the load
\* fails, leaves page id, page configuration, toggle entries and reverse
\* map exactly as they were.
C5_AllOrNothing ==
    [][/\ (page_req'.result = "failed")
          => /\ current_page' = current_page
             /\ page_cfg' = page_cfg
             /\ toggle' = toggle
             /\ has_cc_map' = has_cc_map
             /\ cc_to_button' = cc_to_button
       /\ (page_req'.result = "ok")
          => /\ page_cfg' = current_page'
             /\ DOMAIN toggle' = {}
             /\ has_cc_map'
             /\ \A c \in DOMAIN cc_to_button' :
                   /\ ToggleBound(page_cfg', cc_to_button'[c])
                   /\ GetButtonConfig(page_cfg', cc_to_button'[c]).on_press.cc = c]_vars

RECURSIVE PageAfter(_, _, _)
\* The page reached from state s by k successful direction requests.
PageAfter(s, direction, k) ==
    IF k = 0 THEN s.page
    ELSE PageAfter(OnPageChange(s, "none", direction), direction, k - 1)

\* C6: `next` selects index (i+1) mod n and `prev` index (i-1) mod n of the
\* discovered list; n `next` requests, and `next` then `prev`, end on the
\* starting page.
C6_Step ==
    \A i \in 1..Len(Pages) :
        (/\ current_page = Pages[i]
         /\ page_req'.page_name = "none"
         /\ page_req'.result \in {"ok", "noop"})
        => /\ page_req'.direction = "next"
              => current_page' = Pages[IF i = Len(Pages) THEN 1 ELSE i + 1]
           /\ page_req'.direction = "prev"
              => current_page' = Pages[IF i = 1 THEN Len(Pages) ELSE i - 1]

C6_RoundTrip ==
    current_page \in PageIds
    => /\ PageAfter(Cur, "next", Len(Pages)) = current_page
       /\ PageAfter(Cur, "prev", Len(Pages)) = current_page
       /\ OnPageChange(OnPageChange(Cur, "none", "next"), "none", "prev").page
            = current_page

C6_CyclicPages == [][C6_Step]_vars /\ []C6_RoundTrip

C6_Witness ==
    /\ page_req.page_name = "none" /\ page_req.direction = "next"
    /\ page_req.result = "ok" /\ current_page = Pages[1] /\ PressOf(ev, "up")

\* C7: a CC (c, v) from the device, not consumed by the tuner, sets
\* toggle.<b> to (v > 63) and refreshes b's LED for the button b that is
\* toggle-bound to CC c on the current page.
C7_FeedbackSetsToggle ==
    \A b \in ButtonIds :
        (/\ ev.kind = "midi" /\ ev.id = "cc"
         /\ current_page = page_cfg
         /\ ToggleBound(page_cfg, b)
         /\ GetButtonConfig(page_cfg, b).on_press.cc = ev.a)
        => /\ Get(toggle, b, FALSE) = (ev.b > 63)
           /\ b \in refreshed

\* The bool parameters with a cc_alias that a DT1 payload addresses.
AddressedBy(raw) ==
    {n \in {ParamOrder[i] : i \in 1..Len(ParamOrder)} :
        /\ SysexParam(n).type = "bool" /\ SysexParam(n).has_alias
        /\ Len(raw) >= 12 /\ raw[6] = 18
        /\ SubSeq(raw, 7, 10) = SysexParam(n).address}

\* C9: a DT1 response for a bool parameter with cc_alias c and first data
\* byte d sets toggle.<b> to (d # 0) for the button b toggle-bound to CC c on
\* the current page.
C9_SysexSetsToggle ==
    \A b \in ButtonIds :
        \A n \in AddressedBy(ev.raw) :
            (/\ ev.kind = "midi" /\ ev.id = "sysex"
             /\ current_page = page_cfg
             /\ ToggleBound(page_cfg, b)
             /\ GetButtonConfig(page_cfg, b).on_press.cc = SysexParam(n).cc_alias)
            => Get(toggle, b, FALSE) = (ev.raw[11] # 0)

SyncEvent(e) == e.kind = "midi" /\ e.id \in {"cc", "sysex"}

\* C8 as claimed: a toggle.* entry changes only in a step that is a local
\* button press or the CC-sync path of an incoming CC / DT1 response.
C8_OnlyPressOrSync ==
    [][(toggle' # toggle)
       => \/ (ev'.kind = "button" /\ ev'.action = "press")
          \/ SyncEvent(ev')]_vars

\* C8 amended: a toggle.* entry is set or altered only by a local press or
\* the CC-sync path; any other change is the deletion of all entries by a
\* page-change request that a button event's configured action made.
C8_OnlyPressSyncOrPageChange ==
    [][(toggle' # toggle)
       => \/ (ev'.kind = "button" /\ ev'.action = "press")
          \/ SyncEvent(ev')
          \/ /\ ev'.kind = "button"
             /\ page_req'.result \in {"ok", "failed"}
             /\ DOMAIN toggle' = {}]_vars

C8_Witness ==
    /\ ev.kind = "button" /\ ev.action = "long_press" /\ ev.id = "B"
    /\ page_req.result = "ok" /\ ev.n_before > 0 /\ DOMAIN toggle = {}

-----------------------------------------------------------------------------
(* The encoder accumulator                                                 *)

\* The Up switch alone.
UpButton == {"up"}

\* Encoder movement on every page (the Up switch walks the pages).
NextEnc == EncoderEvent(Deltas) \/ ButtonEvent(UpButton)

SpecEnc == Init /\ [][NextEnc]_vars

\* The accumulator the next encoder event of the loaded page works on.
Accumulated == Get(encoder, EncoderConfig(page_cfg).bind, 64)

EncoderMoves(e) ==
    /\ e.kind = "encoder" /\ e.handled
    /\ EncoderConfig(page_cfg).present /\ EncoderConfig(page_cfg).bind # ""

\* C3: every accumulated encoder value stays in 0..127; a step stores the
\* saturated sum of the previous value (64 at first) and the delta, so +200
\* from 64 gives 127 and -200 after that gives 0; a midi_cc binding sends
\* that absolute value.
C3_Step ==
    EncoderMoves(ev')
    => LET sum == Accumulated + ev'.a
           bind == EncoderConfig(page_cfg).bind
       IN /\ bind \in DOMAIN encoder'
          /\ encoder'[bind] = IF sum < 0 THEN 0 ELSE IF sum > 127 THEN 127 ELSE sum
          /\ (Accumulated = 64 /\ ev'.a = 200) => encoder'[bind] = 127
          /\ (Accumulated = 127 /\ ev'.a = -200) => encoder'[bind] = 0
          /\ ~StartsWithSysex(bind) => OneCc(sent', encoder'[bind])

C3_InRange == \A k \in DOMAIN encoder : encoder[k] \in 0..127

C3_EncoderClamped == [][C3_Step]_vars /\ []C3_InRange

C3_Witness ==
    /\ EncoderMoves(ev) /\ ev.a = -200 /\ ev.repeat = FALSE
    /\ "midi_cc:7" \in DOMAIN encoder /\ encoder["midi_cc:7"] = 0
    /\ OneCc(sent, 0)

-----------------------------------------------------------------------------
(* The main loop and the event dispatcher                                  *)

\* Events one loop iteration raises at most.
MaxPerTick == 4

\* Handler failures followed at most.
MaxFaults == 2

\* PhaseRank with the pedals polled before the encoder.
PhaseRank_PedalsFirst(p) ==
    CASE p = "buttons" -> 1
      [] p = "expression" -> 2
      [] p = "encoder" -> 3
      [] p = "receive" -> 4
      [] p = "drain" -> 5

\* The stages of one iteration of run(), in program order.
PhaseRank(p) ==
    CASE p = "buttons" -> 1
      [] p = "encoder" -> 2
      [] p = "expression" -> 3
      [] p = "receive" -> 4
      [] p = "drain" -> 5

\* An event as the dispatcher sees it: n is its arrival number in this
\* iteration, via how it entered (emit or queue), by the arrival number of
\* the event whose handler queued it (0 = not raised by a handler).
LoopEvent(n, kind, via, by) == [n |-> n, kind |-> kind, via |-> via, by |-> by]

\* EventDispatcher.queue(event): append to the FIFO without dispatching.
Queue(q, e) == Append(q, e)

\* _on_midi_message with the event put at the front of the FIFO.
OnMidiMessage_Front(q, e) == <<e>> \o q

\* _on_midi_message(msg_type, data): wrap in a MidiEvent and queue it.
OnMidiMessage(q, e) == Queue(q, e)

\* The bookkeeping of one handler call for arrival n: fails = the handler
\* raises (as _navigate_setlist can).
HandlerCall(n, fails) ==
    /\ fails => faults < MaxFaults
    /\ failed' = IF fails THEN failed \cup {n} ELSE failed
    /\ faults' = IF fails THEN faults + 1 ELSE faults
    /\ running' = StillRunning(DispatchOutcome(fails))

\* events.emit(event) for one hardware event of stage p: the handler runs
\* at once.  Buttons and pedals may report several events, the encoder one.
Emit(p) ==
    /\ running
    /\ PhaseRank(phase) <= PhaseRank(p)
    /\ ~(p = "encoder" /\ phase = "encoder")
    /\ arrivals < MaxPerTick
    /\ arrivals' = arrivals + 1
    /\ delivered' = Append(delivered, LoopEvent(arrivals + 1, p, "emit", 0))
    /\ phase' = p
    /\ \E fails \in BOOLEAN : HandlerCall(arrivals + 1, fails)
    /\ UNCHANGED <<queue>>
    /\ UNCHANGED <<appVars, hkVars>>

EmitButton == Emit("buttons")

EmitEncoder == Emit("encoder")

EmitExpression == Emit("expression")

\* midi.receive(): one decoded message handed to the callback.
Receive ==
    /\ running
    /\ PhaseRank(phase) <= PhaseRank("receive")
    /\ arrivals < MaxPerTick
    /\ arrivals' = arrivals + 1
    /\ queue' = OnMidiMessage(queue, LoopEvent(arrivals + 1, "midi", "queue", 0))
    /\ phase' = "receive"
    /\ UNCHANGED <<delivered, failed, faults, running>>
    /\ UNCHANGED <<appVars, hkVars>>

\* events.process_queue() is entered.
StartDrain ==
    /\ running
    /\ PhaseRank(phase) < PhaseRank("drain")
    /\ phase' = "drain"
    /\ UNCHANGED <<queue, delivered, arrivals, failed, faults, running>>
    /\ UNCHANGED <<appVars, hkVars>>

\* process_queue() dropping what is still queued when a handler raises.
Undelivered_LostOnFailure(q, fails) == IF fails THEN <<>> ELSE Tail(q)

\* What process_queue() still holds after the head of q went to its
\* handler, whether the handler returned or raised.
Undelivered(q, fails) == Tail(q)

\* One turn of process_queue(): the head of the FIFO goes to its handler;
\* requeue = the handler queues a new event while the drain is running,
\* fails = the handler raises (after it has queued, if it does).
Deliver ==
    /\ running
    /\ phase = "drain"
    /\ queue # <<>>
    /\ \E requeue \in BOOLEAN, fails \in BOOLEAN :
          /\ requeue => arrivals < MaxPerTick
          /\ delivered' = Append(delivered, Head(queue))
          /\ queue' = IF requeue
                      THEN Queue(Undelivered(queue, fails),
                                 LoopEvent(arrivals + 1, "midi", "queue", Head(queue).n))
                      ELSE Undelivered(queue, fails)
          /\ arrivals' = IF requeue THEN arrivals + 1 ELSE arrivals
          /\ HandlerCall(Head(queue).n, fails)
    /\ UNCHANGED phase
    /\ UNCHANGED <<appVars, hkVars>>

\* process_queue() returning after one pass, whatever is still queued.
QueueDrained_OnePass(q) == TRUE

\* The loop test of process_queue(): it goes on until the FIFO is empty.
QueueDrained(q) == q = <<>>

\* process_queue() returns on an empty FIFO; display, gc and sleep follow
\* and the next iteration begins.
EndTick ==
    /\ running
    /\ phase = "drain"
    /\ QueueDrained(queue)
    /\ phase' = "buttons"
    /\ delivered' = <<>>
    /\ arrivals' = 0
    /\ failed' = {}
    /\ UNCHANGED <<queue, faults, running>>
    /\ UNCHANGED <<appVars, hkVars>>

NextLoop ==
    \/ EmitButton \/ EmitEncoder \/ EmitExpression
    \/ Receive \/ StartDrain \/ Deliver \/ EndTick

SpecLoop == Init /\ [][NextLoop]_vars

\* The queued events among those delivered so far, in delivery order.
DeliveredQueued == SelectSeq(delivered, LAMBDA e : e.via = "queue")

\* C10: queued events are delivered in queue-arrival order: of two queued
\* events the earlier arrival is delivered first, and an event a handler
\* queues during the drain is delivered after every event queued before it.
C10_ArrivalOrder ==
    /\ \A i, j \in 1..Len(DeliveredQueued) :
          i < j => DeliveredQueued[i].n < DeliveredQueued[j].n
    /\ \A i \in 1..Len(DeliveredQueued) :
          \A k \in 1..Len(queue) : DeliveredQueued[i].n < queue[k].n
    /\ \A k, l \in 1..Len(queue) : k < l => queue[k].n < queue[l].n

\* A and B were queued, A's handler queued C, and B was delivered before C.
C10_Witness ==
    /\ phase = "drain" /\ Len(delivered) = 3
    /\ delivered[1].via = "queue" /\ delivered[2].via = "queue"
    /\ delivered[2].by = 0
    /\ delivered[3].by = delivered[1].n
    /\ delivered[2].n < delivered[3].n

\* Arrival n of this iteration has been handed to its handler.
WasDelivered(n) == \E i \in 1..Len(delivered) : delivered[i].n = n

\* Arrival n of this iteration waits in the FIFO.
IsQueued(n) == \E k \in 1..Len(queue) : queue[k].n = n

\* process_queue() returns in this step.
DrainReturns == phase = "drain" /\ phase' = "buttons"

\* Every event raised in this iteration is delivered or still queued, never
\* both and never neither.
C11_NoneLost == \A n \in 1..arrivals : WasDelivered(n) # IsQueued(n)

C11_Return ==
    DrainReturns => /\ queue = <<>>
                    /\ \A n \in 1..arrivals : WasDelivered(n)

\* C11: process_queue() drains until the FIFO is empty: no queued event is
\* ever lost, and when the call returns the queue is empty and every event
\* queued before or during the drain, those queued by handlers running
\* inside it included, has been delivered by that call.
C11_DrainUntilEmpty == []C11_NoneLost /\ [][C11_Return]_vars

\* The drain is about to return after delivering an event that a handler
\* queued while the drain was running.
C11_Witness ==
    /\ phase = "drain" /\ queue = <<>>
    /\ \E i \in 1..Len(delivered) :
          delivered[i].via = "queue" /\ delivered[i].by # 0
    /\ \E j \in 1..Len(delivered) :
          delivered[j].via = "queue" /\ delivered[j].by = 0

\* The handler of a queued event raises in this step.
DeliveryFails == phase = "drain" /\ faults' = faults + 1

C12_Step ==
    /\ DeliveryFails =>
          /\ running' /\ phase' = "drain"
          /\ Len(queue') >= Len(queue) - 1
          /\ SubSeq(queue', 1, Len(queue) - 1) = Tail(queue)
          /\ delivered' = Append(delivered, Head(queue))
    /\ (DrainReturns /\ failed # {}) =>
          /\ queue = <<>>
          /\ \A n \in 1..arrivals : WasDelivered(n)
          /\ \A i, j \in 1..Len(DeliveredQueued) :
                i < j => DeliveredQueued[i].n < DeliveredQueued[j].n

\* After a failure the loop is alive and nothing that arrived after the
\* failed event has disappeared.
C12_Usable ==
    faults > 0 =>
       /\ running
       /\ \A f \in failed : \A n \in 1..arrivals :
             n > f => (WasDelivered(n) \/ IsQueued(n))

\* C12: a handler that fails while the dispatcher delivers an event aborts
\* only that delivery: the events queued after it stay queued in order and
\* are all delivered, in order, before the same drain returns, and the
\* dispatcher keeps accepting emit and queue calls afterwards.
C12_FailureIsolated == []C12_Usable /\ [][C12_Step]_vars

\* A drain in which a queued event's handler failed and a later queued event
\* was still delivered, in an iteration after one that had a failure too.
C12_Witness ==
    /\ phase = "drain" /\ queue = <<>>
    /\ faults > Cardinality(failed)
    /\ \E i, j \in 1..Len(delivered) :
          /\ i < j
          /\ delivered[i].via = "queue" /\ delivered[i].n \in failed
          /\ delivered[j].via = "queue" /\ delivered[j].n \notin failed

-----------------------------------------------------------------------------
(* Recoverable conditions: absent configuration, a page that fails to      *)
(* load, allocation failures, malformed SysEx, unknown action and binding  *)
(* kinds, a handler that raises                                            *)

\* A SysEx payload cut short of the ten bytes a DT1 response needs.
TruncatedSysex == MidiMsg("sysex", 0, 0, <<16, 0, 0, 0, 51, 18, 0, 0, 1>>)

\* A unit with a home screen, with or without a setlist.
InitFault ==
    /\ AppInit /\ pages = Pages /\ setlist \in {"none", "s1"} /\ home_title = TRUE
    /\ LoopIdle /\ HKInit

\* The inputs of NextFault.
ButtonsFault == {"A", "B", "C", "up"}

MidiFault == {TruncatedSysex}

NextFault ==
    \/ ButtonEvent(ButtonsFault)
    \/ EncoderEvent(OneSweep)
    \/ ExpressionEvent(PedalIds, HalfWay)
    \/ MidiEvent(MidiFault)

SpecFault == InitFault /\ [][NextFault]_vars

\* C13: none of the recoverable conditions halts the control loop: run() is
\* still inside its while loop after every event, and a handler that raised
\* has only cut its own event short (the event is left unhandled).
C13_LoopNeverHalts ==
    /\ running
    /\ ev.raised => ~ev.handled

\* An event handled in the step after a handler raised, on a unit whose page
\* configuration was lost to a failed load and whose tuner display could not
\* be allocated.
C13_Witness ==
    /\ running
    /\ ev.after_fault /\ ev.handled
    /\ page_cfg = "empty"
    /\ tuner_display_ready /\ ~tuner_inited

\* C14: the tuner is never Active unless its display resources have been
\* acquired: a failed first activation leaves it Inactive and no later
\* toggle request activates it without them.
C14_ActiveOnlyIfInited == tuner_active => tuner_inited

-----------------------------------------------------------------------------
(* The tuner: note name and cents from NoteOn / NoteOff / PitchBend        *)

\* Note numbers sent by the device: both ends of the range, octave borders
\* and the two reference notes.
NoteNumbers == {0, 11, 12, 60, 69, 127}

\* Pitch-bend raw values: both ends, the centre, and the values on either
\* side of each step of the cents scale near 0 and near the limits.
PitchRaws == {0, 7004, 7005, 8151, 8152, 8191, 8192, 8193, 8232, 8233,
              9379, 9380, 16383}

TunerInputs ==
    {MidiMsg("note_on", n, 100, <<>>) : n \in NoteNumbers}
    \cup {MidiMsg("note_off", 60, 0, <<>>)}
    \cup {MidiMsg("pitch_bend", r, 0, <<>>) : r \in PitchRaws}
    \cup {MidiMsg("cc", 20, 64, <<>>), MidiMsg("pc", 5, 0, <<>>)}

\* The switch bound to the tuner.
TunerButton == {"A"}

NextTuner == ButtonEvent(TunerButton) \/ MidiEvent(TunerInputs)

SpecTuner == Init /\ [][NextTuner]_vars

NoteKinds == {"note_on", "note_off", "pitch_bend"}

C15_Step ==
    ~tuner_active =>
       /\ note_name' = note_name
       /\ cents' = cents
       /\ ev'.kind = "midi" => ~ev'.consumed

\* C15: while the tuner is Inactive no incoming MIDI message is consumed by
\* the tuner and none changes note_name or cents; the values held when the
\* tuner became inactive stay as they were until it is active again.
C15_InactiveFrozen == [][C15_Step]_vars

\* A note message arrived while the tuner was inactive and the note and
\* cents shown before the tuner was switched off are still held.
C15_Witness ==
    /\ ~tuner_active /\ tuner_inited
    /\ ev.kind = "midi" /\ ev.id \in NoteKinds /\ ~ev.consumed
    /\ note_name = "A4" /\ cents = 29

\* C16: while the tuner is Active, after any NoteOff the note name is the
\* placeholder "----" and cents is 0, whatever they were before.
C16_NoteOffResets ==
    (ev.kind = "midi" /\ ev.id = "note_off" /\ ev.consumed)
        => (note_name = "----" /\ cents = 0)

\* The tuner consumed the last event, a message of kind k.
TunerTook(e, k) == e.kind = "midi" /\ e.id = k /\ e.consumed

\* C17: while the tuner is Active a NoteOn with note number n in 0..127 sets
\* the note name to entry (n mod 12) of the 12-entry table C..B followed by
\* the octave number floor(n / 12) - 1; 60 gives "C4" and 69 gives "A4".
C17_NoteOnName ==
    TunerTook(ev, "note_on") =>
       /\ ev.a \in 0..127
       /\ Len(NoteNames) = 12 /\ NoteNames[1] = "C" /\ NoteNames[12] = "B"
       /\ note_name = NoteNames[(ev.a % 12) + 1] \o ToString((ev.a \div 12) - 1)
       /\ ev.a = 60 => note_name = "C4"
       /\ ev.a = 69 => note_name = "A4"
       /\ ev.a = 0 => note_name = "C-1"
       /\ ev.a = 127 => note_name = "G9"

\* The active tuner has just named note 69.
C17_Witness ==
    tuner_active /\ TunerTook(ev, "note_on") /\ ev.a = 69 /\ note_name = "A4"

\* The largest 14-bit pitch-bend value; 8192 is the centre.
MaxRaw == 2 * 8192 - 1

\* The device sweeping the pitch wheel upwards one raw value at a time,
\* from 0 to MaxRaw and again from 0.
SweepInputs ==
    IF ev.kind = "midi" /\ ev.id = "pitch_bend" /\ ev.a < MaxRaw
    THEN {MidiMsg("pitch_bend", ev.a + 1, 0, <<>>)}
    ELSE {MidiMsg("pitch_bend", 0, 0, <<>>)}

\* The tuner is switched (or not) before the sweep starts.
NextSweep ==
    \/ (ev.kind = "init" /\ ButtonEvent(TunerButton))
    \/ MidiEvent(SweepInputs)

SpecSweep == Init /\ [][NextSweep]_vars

C18_Range ==
    TunerTook(ev, "pitch_bend") =>
       /\ ev.a \in 0..16383
       /\ cents \in -29..29
       /\ ev.a = 8192 => cents = 0

C18_Step ==
    (TunerTook(ev, "pitch_bend") /\ TunerTook(ev', "pitch_bend") /\ ev'.a >= ev.a)
        => cents' >= cents

\* C18: for every PitchBend raw value r in 0..16383 received while the tuner
\* is Active the cents value lies in -29..29, r = 8192 gives exactly 0, and
\* cents never decreases when r increases.
C18_CentsBounded == []C18_Range /\ [][C18_Step]_vars

\* The sweep has reached the top of the range with the tuner active.
C18_Witness ==
    tuner_active /\ TunerTook(ev, "pitch_bend") /\ ev.a = 16383 /\ cents = 29

\* C19: while the tuner is Active a message that is not NoteOn, NoteOff or
\* PitchBend is not consumed by the tuner and is handled as usual: a CC is
\* recorded under cc.<n> and sets the toggle entry of the button toggle-bound
\* to it, a PC is recorded as current_program, a SysEx is parsed as a DT1
\* response.
C19_OthersPassThrough ==
    (tuner_active /\ ev.kind = "midi" /\ ev.id \notin NoteKinds) =>
       /\ ~ev.consumed /\ ev.handled
       /\ ev.id = "cc" =>
             /\ Get(cc_state, ev.a, -1) = ev.b
             /\ \A b \in ButtonIds :
                   (/\ current_page = page_cfg
                    /\ ToggleBound(page_cfg, b)
                    /\ GetButtonConfig(page_cfg, b).on_press.cc = ev.a)
                   => Get(toggle, b, FALSE) = (ev.b > 63)
       /\ ev.id = "pc" => current_program = ev.a
       /\ ev.id = "sysex" =>
             \A b \in ButtonIds : \A n \in AddressedBy(ev.raw) :
                   (/\ current_page = page_cfg
                    /\ ToggleBound(page_cfg, b)
                    /\ GetButtonConfig(page_cfg, b).on_press.cc = SysexParam(n).cc_alias)
                   => Get(toggle, b, FALSE) = (ev.raw[11] # 0)

\* min + round(v / 127 * (max - min)) for 0 <= v <= 127 and max >= min: the
\* quotient is never half-way between two integers.
RoundScale(v, lo, hi) == lo + (2 * v * (hi - lo) + 127) \div 254

\* C20: a control bound to sysex:<name> whose parameter exists with range
\* [min, max] sends, for its value v in 0..127, a DT1 set whose data value is
\* min + round(v / 127 * (max - min)): min for 0, max for 127, never outside
\* the range.
C20_ScaledRounded ==
    (ev.kind \in {"encoder", "expression"} /\ ev.handled
     /\ sent # <<>> /\ sent[1].type = "sysex") =>
        LET bind == IF ev.kind = "encoder" THEN EncoderConfig(page_cfg).bind
                    ELSE ExpressionConfig(page_cfg, ev.a).bind
            v == IF ev.kind = "encoder" THEN Accumulated ELSE ev.b
            param == SysexParam(ParamNameOf(bind))
        IN /\ v \in 0..127
           /\ sent[1].data = <<RoundScale(v, param.min, param.max)>>
           /\ v = 0 => sent[1].data = <<param.min>>
           /\ v = 127 => sent[1].data = <<param.max>>
           /\ sent[1].data[1] >= param.min /\ sent[1].data[1] <= param.max

-----------------------------------------------------------------------------
(* Unknown binding kinds and absent configuration                          *)

\* A binding string that is neither midi_cc... nor sysex:<name>.
UnknownKind(bind) == bind # "" /\ ~StartsWithSysex(bind) /\ ~StartsWithMidiCc(bind)

\* The binding of the continuous control event e moved, on the loaded page.
BindOf(e) ==
    IF e.kind = "encoder" THEN EncoderConfig(page_cfg)
    ELSE ExpressionConfig(page_cfg, e.a)

\* C21: an encoder or expression pedal whose binding is of an unknown kind
\* (neither midi_cc... nor sysex:<name>) sends no MIDI or SysEx message when
\* it moves, and raises no error.
C21_UnknownKindSilent ==
    (/\ ev.kind \in {"encoder", "expression"}
     /\ BindOf(ev).present
     /\ UnknownKind(BindOf(ev).bind)) => (sent = <<>> /\ ~ev.raised)

\* The inputs of NextAbsent.
ButtonsAbsent == {"1", "B", "C", "up"}

OneFineStep == {FineStep}

\* Partial configuration: pages with and without sections for the control
\* moved, a page left empty by a failed load, with and without a setlist.
NextAbsent ==
    \/ ButtonEvent(ButtonsAbsent)
    \/ EncoderEvent(OneFineStep)
    \/ ExpressionEvent(PedalIds, HalfWay)

SpecAbsent == InitAll /\ [][NextAbsent]_vars

\* The page configuration cfg has nothing for event e: no section for the
\* button, or no action for the kind of button event; no encoder or pedal
\* section; a sysex:<name> binding whose parameter does not exist.
Absent(cfg, e) ==
    \/ /\ e.kind = "button"
       /\ LET c == GetButtonConfig(cfg, e.id)
          IN \/ ~c.present
             \/ e.action = "press" /\ c.on_press = NoAction
             \/ e.action = "release" /\ c.on_release = NoAction
             \/ e.action = "long_press" /\ c.on_long_press = NoAction
    \/ /\ e.kind = "encoder"
       /\ LET c == EncoderConfig(cfg)
          IN \/ ~c.present
             \/ StartsWithSysex(c.bind) /\ ~SysexParam(ParamNameOf(c.bind)).present
    \/ /\ e.kind = "expression"
       /\ LET c == ExpressionConfig(cfg, e.a)
          IN \/ ~c.present
             \/ StartsWithSysex(c.bind) /\ ~SysexParam(ParamNameOf(c.bind)).present

\* A press of Up or Down while a setlist is active.
SetlistPress(e) ==
    e.kind = "button" /\ e.id \in {"up", "down"} /\ e.action = "press"
    /\ setlist # "none"

\* C22 as stated: an event the current page has no configuration for (no
\* button section or no action of that kind, no encoder / pedal section, a
\* sysex:<name> binding without its parameter) sends no MIDI message and
\* changes no toggle entry.
C22_AbsenceNoOp ==
    [][Absent(page_cfg, ev') => (sent' = <<>> /\ toggle' = toggle)]_vars

\* C22 amended: the same, except for a press of Up or Down while a setlist is
\* active, which navigates the setlist whatever the page configures.
C22_AbsenceNoOpButSetlist ==
    [][(Absent(page_cfg, ev') /\ ~SetlistPress(ev'))
          => (sent' = <<>> /\ toggle' = toggle)]_vars

\* Pedal 2 moved on p2, bound to a parameter that does not exist, with a
\* toggle entry set: nothing sent.
C22_Witness ==
    /\ ev.kind = "expression" /\ ev.a = 2 /\ ev.handled
    /\ page_cfg = "p2"
    /\ Get(toggle, "1", FALSE)
    /\ sent = <<>>

-----------------------------------------------------------------------------
(* The reverse map across page changes                                     *)

\* Button b of page configuration cfg is toggle-bound to CC number c.
BoundTo(cfg, b, c) ==
    ToggleBound(cfg, b) /\ c # -1 /\ GetButtonConfig(cfg, b).on_press.cc = c

\* The map m holds exactly the (cc -> button) pairs of cfg.
ExactMap(m, cfg) ==
    /\ \A c \in DOMAIN m : BoundTo(cfg, m[c], c)
    /\ \A b \in ButtonIds :
          ToggleBound(cfg, b) /\ GetButtonConfig(cfg, b).on_press.cc # -1
             => LET c == GetButtonConfig(cfg, b).on_press.cc
                IN c \in DOMAIN m /\ m[c] = b

C28_Step ==
    /\ page_req'.result = "ok" =>
          has_cc_map' /\ ExactMap(cc_to_button', page_cfg')
    /\ (/\ page_req.result = "ok"
        /\ ev'.kind = "midi" /\ ev'.id = "cc"
        /\ \A b \in ButtonIds : ~BoundTo(page_cfg, b, ev'.a)) => toggle' = toggle

\* C28: after every successful page change the reverse map holds exactly the
\* (cc -> button) pairs of the new page's buttons whose on_press is a midi_cc
\* action with value 'toggle' and a cc number, no entry of the previous page
\* survives, and device feedback for a CC that the new page does not bind
\* changes no toggle entry.
C28_MapRebuilt == [][C28_Step]_vars

\* On p2 after a page change from p1, with a toggle entry set by a press:
\* feedback for CC 20, bound on p1 only, was recorded and changed nothing.
C28_Witness ==
    /\ ev.kind = "midi" /\ ev.id = "cc" /\ ev.a = 20
    /\ current_page = "p2" /\ page_cfg = "p2"
    /\ cc_to_button = [c \in {22} |-> "1"]
    /\ toggle = [x \in {"1"} |-> TRUE]

-----------------------------------------------------------------------------
(* Rounding of the cents value                                             *)

\* q is an integer nearest to (r - 8192) / 8192 * 200 = (r - 8192) * 25 / 1024
\* (either neighbour when the quotient lies half-way).
NearestCents(q, r) ==
    LET num == (r - 8192) * 25
        d == IF 1024 * q >= num THEN 1024 * q - num ELSE num - 1024 * q
    IN 2 * d <= 1024

\* C29: while the tuner is Active a PitchBend with raw value r in 0..16383
\* sets cents to clamp(round((r - 8192) / 8192 * 200), -29, 29), the quotient
\* rounded to the nearest integer, not truncated.
C29_CentsRounded ==
    TunerTook(ev, "pitch_bend") =>
        \E q \in -200..200 :
            NearestCents(q, ev.a) /\ cents = Max(-29, Min(29, q))

-----------------------------------------------------------------------------
(* Acquisition of the tuner's display resources                            *)

\* Event e asks for a tuner toggle: the action the page configures for that
\* kind of event of that button is tuner_toggle.
TunerRequest(cfg, e) ==
    /\ e.kind = "button"
    /\ GetButtonConfig(cfg, e.id).present
    /\ ActionConfig(GetButtonConfig(cfg, e.id), e.action).type = "tuner_toggle"

C30_Step ==
    init_attempts' # init_attempts =>
        /\ TunerRequest(page_cfg, ev')
        /\ init_attempts' = init_attempts + 1

\* C30: the tuner's display resources are acquired lazily and once: no
\* attempt is made before the first tuner-toggle request, and over any
\* sequence of requests at most one attempt is made, whether it succeeded or
\* failed.
C30_LazyOnce ==
    /\ [](init_attempts <= 1 /\ (~tuner_display_ready => init_attempts = 0))
    /\ [][C30_Step]_vars

\* The one attempt failed, and a later request went through without another.
C30_Witness ==
    /\ init_attempts = 1 /\ ~tuner_inited
    /\ tuner_active
    /\ ev.kind = "button" /\ ev.id = "A" /\ ev.action = "press"

-----------------------------------------------------------------------------
(* A page list of one page                                                 *)

\* config.discover_pages() found a single page file.
InitOne ==
    /\ AppInit /\ pages = <<"p1">> /\ setlist = "none" /\ home_title = FALSE
    /\ LoopIdle /\ HKInit

NextOne ==
    \/ ButtonEvent(CoreButtons)
    \/ EncoderEvent(OneFineStep)

SpecOne == InitOne /\ [][NextOne]_vars

\* The request of the step asked for a direction and no page id, and came
\* back without loading: it resolved to the page that is current.
DirectionNoop(req) ==
    req.page_name = "none" /\ req.direction \in {"next", "prev"}
    /\ req.result = "noop"

\* C27: a page-change request with a direction and no page id that resolves
\* to the current page changes nothing: the current page, the loaded page
\* configuration, every toggle entry and the reverse map stay as they are.
C27_ReselectIsNoop ==
    [][(/\ page_req'.page_name = "none"
        /\ page_req'.direction \in {"next", "prev"}
        /\ Len(pages) > 0
        /\ pages[StepIndex(PageIndex(pages, current_page), page_req'.direction,
                           Len(pages)) + 1] = current_page)
         => /\ current_page' = current_page
            /\ page_cfg' = page_cfg
            /\ toggle' = toggle
            /\ cc_to_button' = cc_to_button
            /\ has_cc_map' = has_cc_map]_vars

\* With one page in the list, "next" was requested while toggle entries were
\* set: they are still there, and so are the page and the map.
C27_Witness ==
    /\ DirectionNoop(page_req)
    /\ pages = <<"p1">> /\ current_page = "p1" /\ page_cfg = "p1"
    /\ toggle = [x \in {"1", "2"} |-> TRUE]
    /\ cc_to_button = (20 :> "1" @@ 21 :> "2")

-----------------------------------------------------------------------------
(* Setlist navigation with Up and Down                                     *)

\* The inputs of NextSet.
ButtonsSet == {"up", "down", "1"}

\* The Up and Down switches, and a footswitch, with and without a setlist.
NextSet == ButtonEvent(ButtonsSet)

SpecSet == InitAll /\ [][NextSet]_vars

\* Number of songs of the active setlist.
SongCount == Len(Songs(setlist))

\* Event e is a press of Up ("next") or Down ("prev") that reaches the
\* setlist branch of the button handler.
Navigates(e, direction) ==
    /\ e.kind = "button" /\ e.action = "press"
    /\ e.id = (IF direction = "next" THEN "up" ELSE "down")
    /\ setlist # "none" /\ ~menu_active

\* The index of C23 as stated: one up or down, unchanged at the ends.
C23_StepStated ==
    /\ Navigates(ev', "next") =>
          /\ song_index' \in 0..(SongCount - 1)
          /\ song_index' = IF song_index = SongCount - 1 THEN song_index
                           ELSE song_index + 1
    /\ Navigates(ev', "prev") =>
          /\ song_index' \in 0..(SongCount - 1)
          /\ song_index' = IF song_index = 0 THEN song_index
                           ELSE song_index - 1
    /\ ~(Navigates(ev', "next") \/ Navigates(ev', "prev")) =>
          song_index' = song_index

\* The same with the first navigation told apart: from -1 both directions
\* select song 0.
C23_StepAmended ==
    /\ Navigates(ev', "next") =>
          /\ song_index' \in 0..(SongCount - 1)
          /\ song_index' = IF song_index = SongCount - 1 THEN song_index
                           ELSE song_index + 1
    /\ Navigates(ev', "prev") =>
          /\ song_index' \in 0..(SongCount - 1)
          /\ song_index' = IF song_index <= 0 THEN 0 ELSE song_index - 1
    /\ ~(Navigates(ev', "next") \/ Navigates(ev', "prev")) =>
          song_index' = song_index

\* C23 as stated: with a setlist of n >= 1 songs the index is -1 before any
\* navigation and in 0..n-1 after one; next at the last song and prev at the
\* first leave it unchanged, otherwise next adds 1 and prev subtracts 1.
C23_IndexBounded ==
    /\ [](song_index \in -1..(Len(Songs("s1")) - 1))
    /\ [][C23_StepStated]_vars

\* C23 amended: the same, except that prev as the first navigation (index
\* -1) selects song 0 instead of subtracting 1.
C23_IndexBoundedFromStart ==
    /\ [](song_index \in -1..(Len(Songs("s1")) - 1))
    /\ [][C23_StepAmended]_vars

\* Down was pressed at the first song after the list had been walked to its
\* end: the index stays at 0.
C23_Witness ==
    /\ setlist = "s1" /\ song_index = 0
    /\ ev.kind = "button" /\ ev.id = "down" /\ ev.action = "press" /\ ev.repeat

\* Event e comes from the Up or the Down switch.
UpDown(e) == e.kind = "button" /\ e.id \in {"up", "down"}

C24_Step ==
    /\ (UpDown(ev') /\ setlist # "none" /\ ~menu_active) =>
          IF ev'.action = "press"
          THEN LET r == NavigateSetlist(Cur,
                            IF ev'.id = "up" THEN "next" ELSE "prev", TRUE)
               IN /\ song_index' = r.song
                  /\ sent' = r.sent
                  /\ page_req' = r.page_req
                  /\ current_page' = r.page
          ELSE /\ sent' = <<>>
               /\ page_req' = NoRequest
               /\ current_page' = current_page
               /\ song_index' = song_index
    /\ (UpDown(ev') /\ setlist = "none") => song_index' = song_index

\* C24: while a setlist is active no event of the Up or Down switch executes
\* the action the current page configures for it (a page change or any
\* other): a press navigates the setlist and nothing else, a release or long
\* press does nothing; while no setlist is active Up and Down never navigate.
C24_UpDownNavigateOnly == [][C24_Step]_vars

-----------------------------------------------------------------------------
(* HK firmware: the switch scanner                                         *)

\* The switches followed: the encoder button (0), Up (5) and Down (10).
HKSwitches == {0, 5, 10}

\* Everything outside the HK firmware.
remedyVars == <<appVars, running, loopVars>>

\* midi_usb.send(ControlChange(n, v)); midi_ser.send(ControlChange(n, v))
HKSend(n, v) == << [port |-> "usb", cc |-> n, value |-> v],
                   [port |-> "ser", cc |-> n, value |-> v] >>

\* HKScanned without the tuner-mode exemption of Up and Down.
HKScanned_All(i, tuner) == TRUE

\* if (i != 5 and i != 10) or (not TunerMode)
HKScanned(i, tuner) == (i # 5 /\ i # 10) \/ ~tuner

\* The body of the for loop of SwitchEvent from switch i on: st is the set
\* of latched switches, out the messages sent so far in this pass.
RECURSIVE HKScanFrom(_, _, _)
HKScanFrom(i, st, out) ==
    IF i > 10 THEN [state |-> st, sent |-> out]
    ELSE IF ~HKScanned(i, hk_tuner) THEN HKScanFrom(i + 1, st, out)
    ELSE IF i \in hk_pressed
         THEN IF i \notin st
              THEN HKScanFrom(i + 1, st \cup {i}, out \o HKSend(14 + i, 127))
              ELSE HKScanFrom(i + 1, st, out)
         ELSE IF i \in st
              THEN HKScanFrom(i + 1, st \ {i}, out \o HKSend(14 + i, 0))
              ELSE HKScanFrom(i + 1, st, out)

\* One pass of SwitchEvent between two awaits.
HKSwitchEvent ==
    LET r == HKScanFrom(0, hk_state, <<>>)
    IN /\ hk_state' = r.state
       /\ hk_sent' = r.sent
       /\ UNCHANGED <<hk_pressed, hk_tuner, hk_enc, remedyVars>>

\* The foot pushes switch i down.
HKPress ==
    \E i \in HKSwitches :
        /\ i \notin hk_pressed
        /\ hk_pressed' = hk_pressed \cup {i}
        /\ hk_sent' = <<>>
        /\ UNCHANGED <<hk_state, hk_tuner, hk_enc, remedyVars>>

\* The foot lets switch i go.
HKRelease ==
    \E i \in HKSwitches :
        /\ i \in hk_pressed
        /\ hk_pressed' = hk_pressed \ {i}
        /\ hk_sent' = <<>>
        /\ UNCHANGED <<hk_state, hk_tuner, hk_enc, remedyVars>>

\* MIDI_parse for a received CC 25: TunerMode = cc_val > 63.
HKTunerCc ==
    \E cc_val \in {0, 127} :
        /\ hk_tuner' = (cc_val > 63)
        /\ hk_sent' = <<>>
        /\ UNCHANGED <<hk_pressed, hk_state, hk_enc, remedyVars>>

NextHK == HKSwitchEvent \/ HKPress \/ HKRelease \/ HKTunerCc

\* SwitchEvent is one of the tasks main() gathers and yields with
\* asyncio.sleep(0) after every pass: the scheduler runs it again and again.
SpecHK == Init /\ [][NextHK]_vars /\ WF_vars(HKSwitchEvent)

\* The messages of out that carry CC number n.
RECURSIVE HKOnly(_, _)
HKOnly(out, n) ==
    IF out = <<>> THEN <<>>
    ELSE IF Head(out).cc = n THEN <<Head(out)>> \o HKOnly(Tail(out), n)
    ELSE HKOnly(Tail(out), n)

\* What one step sends for switch i: 127 once on USB and serial when the
\* switch is found down and was up, 0 once when found up and was down,
\* nothing otherwise; Up and Down nothing at all in tuner mode.
C26_Edges ==
    \A i \in HKSwitches :
        LET msgs == HKOnly(hk_sent', 14 + i)
        IN /\ (hk_tuner /\ i \in {5, 10}) => msgs = <<>>
           /\ msgs \in {<<>>, HKSend(14 + i, 127), HKSend(14 + i, 0)}
           /\ msgs = HKSend(14 + i, 127) =>
                 (i \in hk_pressed /\ i \notin hk_state /\ i \in hk_state')
           /\ msgs = HKSend(14 + i, 0) =>
                 (i \notin hk_pressed /\ i \in hk_state /\ i \notin hk_state')
           /\ msgs = <<>> => ((i \in hk_state') = (i \in hk_state))

\* A switch whose 127 went out and that has been let go gets its 0 (or is
\* pushed again first).
C26_Released ==
    \A i \in HKSwitches :
        (i \in hk_state /\ i \notin hk_pressed)
            ~> (i \notin hk_state \/ i \in hk_pressed)

\* C26: HK firmware: switch i sends CC 14+i with value 127 once per press
\* edge and value 0 once per release edge, on USB and on serial; in tuner
\* mode Up and Down (CC 19 and CC 24) send nothing; and every press that
\* sent 127 is eventually followed by a 0 for that CC once the switch has
\* been released.
C26_SwitchEdges == [][C26_Edges]_vars /\ C26_Released

-----------------------------------------------------------------------------
(* The checksum of a parameter message                                     *)

\* Every value a pedal reports.
SevenBitValues == 0..127

\* Every position of both pedals on every page.
NextPedal == ExpressionEvent(PedalIds, SevenBitValues) \/ ButtonEvent(UpButton)

SpecPedal == Init /\ [][NextPedal]_vars

\* Address and data of message m are 7-bit bytes.
SevenBit(m) ==
    /\ \A i \in 1..Len(m.addr) : m.addr[i] \in 0..127
    /\ \A i \in 1..Len(m.data) : m.data[i] \in 0..127

-----------------------------------------------------------------------------
(* Controls bound to a Control Change                                      *)

\* The inputs of NextCc.
ButtonsCc == {"up", "encoder"}

DeltasCc == {FineStep, -Sweep}

PedalEnds == {0, 127}

\* The encoder and both pedals on every page, with the menu opened and
\* closed by the encoder button.
NextCc ==
    \/ ButtonEvent(ButtonsCc)
    \/ EncoderEvent(DeltasCc)
    \/ ExpressionEvent(PedalIds, PedalEnds)

SpecCc == Init /\ [][NextCc]_vars

\* The one message a midi_cc binding is to send: number n when configured
\* (-1 = not configured, then the default), value v, on the global channel.
BoundCc(n, default, v) ==
    << Msg("cc", MidiChannel, IF n = -1 THEN default ELSE n, v, <<>>, <<>>) >>

C31_Step ==
    /\ (/\ ev'.kind = "encoder" /\ ev'.a # 0 /\ ~menu_active
        /\ EncoderConfig(page_cfg).present
        /\ StartsWithMidiCc(EncoderConfig(page_cfg).bind)) =>
          LET c == EncoderConfig(page_cfg)
              acc == Get(encoder, c.bind, 64) + ev'.a
              v == IF acc < 0 THEN 0 ELSE IF acc > 127 THEN 127 ELSE acc
          IN /\ sent' = BoundCc(c.fallback_cc, 7, v)
             /\ encoder'[c.bind] = v
    /\ (/\ ev'.kind = "expression"
        /\ ExpressionConfig(page_cfg, ev'.a).present
        /\ StartsWithMidiCc(ExpressionConfig(page_cfg, ev'.a).bind)) =>
          sent' = BoundCc(ExpressionConfig(page_cfg, ev'.a).cc, 1, ev'.b)

\* C31: a control with a midi_cc binding sends, for each change, exactly one
\* CC message that carries the control's absolute 0..127 value unchanged (the
\* clamped accumulated value of the encoder, the value of the pedal), on the
\* global default channel, with the CC number of the configuration, 7 for
\* the encoder and 1 for a pedal when none is configured.
C31_BoundCcSent == [][C31_Step]_vars

\* The encoder of p1 has run into the upper limit and sent 127 on its
\* configured number; pedal 2 of p3 is the other configured control.
C31_Witness ==
    /\ ev.kind = "encoder" /\ ev.a = FineStep /\ ev.repeat
    /\ page_cfg = "p1"
    /\ sent = BoundCc(74, 7, 127)

-----------------------------------------------------------------------------
(* Incoming SysEx that is malformed or matches nothing                     *)

\* The inputs of NextSysex.
ButtonsSysex == {"1", "up"}

MidiSysex ==
    {MidiMsg("sysex", 0, 0, raw) :
        raw \in SysexInputs \cup {Payload(18, <<9, 9, 9, 9>>, <<1>>)}}

\* The payloads of SysexInputs and one whose address no parameter has.
NextSysex ==
    \/ ButtonEvent(ButtonsSysex)
    \/ MidiEvent(MidiSysex)

SpecSysex == Init /\ [][NextSysex]_vars

\* The payload raw is shorter than 10 bytes, or its operation byte is not
\* 0x12, or it carries no data byte, or no bool parameter with a cc_alias
\* has its address.
Discarded(raw) ==
    \/ Len(raw) < 10
    \/ raw[6] # 18
    \/ Len(raw) < 12
    \/ \A i \in 1..Len(ParamOrder) :
          LET param_cfg == SysexParam(ParamOrder[i])
          IN \/ param_cfg.type # "bool"
             \/ param_cfg.address # SubSeq(raw, 7, 10)
             \/ ~param_cfg.has_alias

\* C32: an incoming SysEx that is shorter than 10 bytes, has an operation
\* byte other than 0x12, addresses no bool parameter, addresses a bool
\* parameter without cc_alias, or has no data byte leaves every toggle entry
\* unchanged and raises no error.
C32_MalformedIgnored ==
    [][(ev'.kind = "midi" /\ ev'.id = "sysex" /\ Discarded(ev'.raw))
          => (toggle' = toggle /\ ~ev'.raised /\ sent' = <<>>)]_vars

\* An RQ1-shaped payload for the address of boost arrived on p1 with the
\* reverse map built and toggle.1 not set: it is still not set.
C32_Witness ==
    /\ ev.kind = "midi" /\ ev.id = "sysex"
    /\ ev.raw = Payload(17, <<0, 0, 1, 0>>, <<1>>)
    /\ has_cc_map /\ page_cfg = "p1" /\ 20 \in DOMAIN cc_to_button
    /\ ~Get(toggle, "1", FALSE)
    /\ ev.handled /\ ~ev.raised

-----------------------------------------------------------------------------
(* The order of deliveries within one iteration                            *)

\* Where a delivered event belongs in an iteration: buttons 1, encoder 2,
\* pedals 3, and 4 for everything that came through the queue.
TickOrder(e) ==
    IF e.via = "queue" THEN 4
    ELSE CASE e.kind = "buttons" -> 1
           [] e.kind = "encoder" -> 2
           [] e.kind = "expression" -> 3
           [] OTHER -> 0

C33_Order ==
    /\ \A i, j \in 1..Len(delivered) :
          i < j => /\ TickOrder(delivered[i]) <= TickOrder(delivered[j])
                   /\ (delivered[i].via = "queue" /\ delivered[i].by = 0
                       /\ delivered[j].by = 0)
                         => delivered[i].n < delivered[j].n
    /\ \A i \in 1..Len(delivered) : TickOrder(delivered[i]) # 0
    /\ \A k \in 1..Len(queue) : queue[k].via = "queue" /\ queue[k].kind = "midi"
    /\ (phase = "buttons" /\ arrivals = 0) => queue = <<>>
    /\ phase \in {"buttons", "encoder", "expression"} => queue = <<>>

C33_End ==
    (phase = "drain" /\ phase' = "buttons") =>
        /\ queue = <<>> /\ queue' = <<>>
        /\ {delivered[i].n : i \in 1..Len(delivered)} = 1..arrivals

\* C33: in every iteration the hardware events of the tick (buttons, then
\* encoder, then pedals) are delivered, synchronously, before any MIDI
\* message received in the tick; every MIDI message received in a tick is
\* delivered in that tick, in receive order; and the queue is empty at the
\* end of every iteration.
C33_TickOrder == []C33_Order /\ [][C33_End]_vars

\* A button, the encoder, a pedal and a received message, delivered in
\* that order within one iteration.
C33_Witness ==
    /\ phase = "drain" /\ queue = <<>> /\ Len(delivered) = 4
    /\ delivered[1].kind = "buttons" /\ delivered[2].kind = "encoder"
    /\ delivered[3].kind = "expression"
    /\ delivered[4].kind = "midi" /\ delivered[4].via = "queue"

-----------------------------------------------------------------------------
(* A request for the current page by id                                    *)

\* The inputs of NextSame.
ButtonsSame == {"1", "A", "up"}

\* Button A of p2 asks for page p2 by id; button 1 sets toggle entries.
NextSame == ButtonEvent(ButtonsSame)

SpecSame == Init /\ [][NextSame]_vars

\* C34: a page-change request whose explicit page id is the current page
\* is not a no-op: the page is loaded again, every toggle entry is cleared
\* and the reverse map is rebuilt, as for a change to another page.
C34_SamePageReloads ==
    [][(page_req'.page_name # "none" /\ page_req'.page_name = current_page)
          => /\ page_req'.result = "ok"
             /\ toggle' = <<>>
             /\ current_page' = current_page
             /\ page_cfg' = current_page
             /\ has_cc_map' /\ ExactMap(cc_to_button', page_cfg')
             /\ \A b \in ButtonIds : GetButtonConfig(page_cfg', b).present
                                         => b \in refreshed']_vars

\* Button A pressed on p2 with toggle.1 set: p2 is still current, the
\* request succeeded and the entry is gone.
C34_Witness ==
    /\ PressOf(ev, "A") /\ ev.n_before = 1
    /\ page_req = [page_name |-> "p2", direction |-> "none", result |-> "ok"]
    /\ current_page = "p2" /\ page_cfg = "p2"
    /\ toggle = <<>>

-----------------------------------------------------------------------------
(* What a page change leaves in the coordinator state                      *)

\* The inputs of NextKeep.
ButtonsKeep == {"1", "B", "up"}

MidiKeep == {MidiMsg("cc", 20, 64, <<>>), MidiMsg("pc", 3, 0, <<>>)}

\* The encoder, device feedback (a CC and a Program Change), a toggle
\* button, page changes that succeed (Up) and one that fails (B on p2).
NextKeep ==
    \/ ButtonEvent(ButtonsKeep)
    \/ EncoderEvent(OneFineStep)
    \/ MidiEvent(MidiKeep)

SpecKeep == Init /\ [][NextKeep]_vars

C35_Step ==
    /\ page_req'.result \in {"ok", "failed"} =>
          /\ encoder' = encoder
          /\ cc_state' = cc_state
          /\ current_program' = current_program
    /\ (ev'.kind = "encoder" /\ ev'.handled /\ EncoderConfig(page_cfg).bind # "") =>
          LET bind == EncoderConfig(page_cfg).bind
              acc == Get(encoder, bind, 64) + ev'.a
          IN /\ encoder'[bind] = IF acc > 127 THEN 127 ELSE IF acc < 0 THEN 0 ELSE acc
             /\ \A x \in DOMAIN encoder : x # bind => encoder'[x] = encoder[x]

\* C35: a page change removes only toggle entries: the encoder accumulators
\* (64 for a binding not yet moved), the cc.<n> feedback values and
\* current_program are unchanged by any page change, successful or failed,
\* so that the encoder goes on from the value its binding had before.
C35_PageChangeKeepsOthers == [][C35_Step]_vars

\* Back on p1 after a walk round the pages: the accumulator of p1's
\* binding, the CC value and the program recorded before are all there, and
\* the toggle entry set before is gone.
C35_Witness ==
    /\ page_req.result = "ok" /\ current_page = "p1" /\ PressOf(ev, "up")
    /\ Get(encoder, "midi_cc:7", 64) = 64 + FineStep
    /\ Get(encoder, "sysex:gain", 64) = 64 + FineStep
    /\ Get(cc_state, 20, -1) = 64
    /\ current_program = 3
    /\ toggle = <<>> /\ ev.n_before = 1

-----------------------------------------------------------------------------
(* The settings menu                                                       *)

\* The inputs of NextMenu.
ButtonsMenu == {"1", "up", "encoder"}

\* The encoder button opens and closes the menu; a toggle button, Up and
\* the encoder are used while it is open and while it is closed, with and
\* without a setlist.
NextMenu ==
    \/ ButtonEvent(ButtonsMenu)
    \/ EncoderEvent(OneFineStep)

SpecMenu == InitAll /\ [][NextMenu]_vars

C36_Step ==
    /\ (menu_active /\ ev'.kind = "button") =>
          /\ page_req' = NoRequest
          /\ current_page' = current_page /\ page_cfg' = page_cfg
          /\ toggle' = toggle
          /\ song_index' = song_index
          /\ sent' = <<>>
          /\ ev'.handled
    /\ (menu_active /\ ev'.kind = "encoder") =>
          /\ encoder' = encoder
          /\ sent' = <<>>
          /\ ev'.handled

\* C36: while the settings menu is active no button event executes a page
\* action, flips a toggle entry or navigates the setlist, and no encoder
\* event changes the accumulator or sends MIDI; the events are marked
\* handled and go to the menu only.
C36_MenuConsumes == [][C36_Step]_vars

\* Up pressed with the menu open and a setlist active, after the first
\* song had been selected: still the first song, nothing sent.
C36_Witness ==
    /\ menu_active /\ PressOf(ev, "up") /\ ev.handled
    /\ setlist = "s1" /\ song_index = 0
    /\ Get(toggle, "1", FALSE)
    /\ sent = <<>>

-----------------------------------------------------------------------------
(* LEDs against toggle entries                                             *)

\* The LED of button b agrees with toggle.<b>: lit in the full colour only
\* when the entry is true, and, for a button the loaded page configures,
\* full when it is true and dimmed when it is not.
LedAgrees(b) ==
    /\ leds[b] = "full" => Get(toggle, b, FALSE)
    /\ GetButtonConfig(page_cfg, b).present =>
          leds[b] = (IF Get(toggle, b, FALSE) THEN "full" ELSE "dim")

\* C37: at the end of every handled event (press or release, device CC or
\* SysEx sync, successful or failed page change, tuner toggle) the LED of
\* each configured button shows the full colour exactly when its toggle
\* entry is true and the dimmed colour otherwise; the LEDs never disagree
\* with the toggle entries.
C37_LedsFollowToggles ==
    ev.handled => \A b \in ButtonIds : LedAgrees(b)

-----------------------------------------------------------------------------
(* HK firmware: the rotary encoder                                         *)

\* How far the knob is turned between two polls of EncoderEvent.
HKMaxTurn == 2

\* The CC 11 values the DAW sends.
HKCcValues == {0, 38, 64, 127}

\* max(0, .) then min(127, .)
HKClamp(n) == IF n < 0 THEN 0 ELSE IF n > 127 THEN 127 ELSE n

\* The knob is turned by d detents: encoder.position moves away from
\* last_position; nothing is sent until EncoderEvent polls.
HKTurn ==
    \E d \in {-1, 1} :
        /\ hk_enc.moved + d \in -HKMaxTurn..HKMaxTurn
        /\ hk_enc' = [hk_enc EXCEPT !.moved = @ + d]
        /\ hk_sent' = <<>>
        /\ UNCHANGED <<hk_pressed, hk_state, hk_tuner, remedyVars>>

\* One poll of EncoderEvent: a changed position is added to encoder_value,
\* the sum is limited to 0..127 and sent as CC 11 on both ports.
HKEncoderEvent ==
    /\ IF hk_enc.moved # 0
       THEN LET value == HKClamp(hk_enc.encoder_value + hk_enc.moved)
            IN /\ hk_enc' = [hk_enc EXCEPT !.encoder_value = value,
                                           !.moved = 0,
                                           !.received = -1]
               /\ hk_sent' = HKSend(11, value)
       ELSE /\ hk_enc' = hk_enc
            /\ hk_sent' = <<>>
    /\ UNCHANGED <<hk_pressed, hk_state, hk_tuner, remedyVars>>

\* MIDI_parse of a received ControlChange(11, cc_val): display_index[0] is
\* 13, and only a value that differs from v[13] is stored in v[13] and in
\* encoder_value.
HKEncoderCc ==
    \E cc_val \in HKCcValues :
        /\ hk_enc' = IF hk_enc.v13 # cc_val
                     THEN [hk_enc EXCEPT !.v13 = cc_val,
                                         !.encoder_value = cc_val,
                                         !.received = cc_val]
                     ELSE [hk_enc EXCEPT !.received = cc_val]
        /\ hk_sent' = <<>>
        /\ UNCHANGED <<hk_pressed, hk_state, hk_tuner, remedyVars>>

NextHKEnc == HKTurn \/ HKEncoderEvent \/ HKEncoderCc

\* The HK firmware's encoder alone: the knob, the poll and the DAW's CC 11.
SpecHKEnc == Init /\ [][NextHKEnc]_vars

\* A poll that finds the knob moved by d after CC 11 with value x was
\* received sends CC 11 with clamp(x + d, 0, 127).
C38_Step ==
    (hk_enc.received # -1 /\ hk_enc.moved # 0 /\ hk_sent' # <<>>) =>
        hk_sent' = HKSend(11, HKClamp(hk_enc.received + hk_enc.moved))

\* C38: the encoder value follows the DAW: once CC 11 with value x has been
\* received encoder_value is x, and the next local movement by d sends CC 11
\* with clamp(x + d, 0, 127), whatever movements and CC 11 messages came
\* before.
C38_EncoderFollowsDaw ==
    /\ [](hk_enc.received # -1 => hk_enc.encoder_value = hk_enc.received)
    /\ [][C38_Step]_vars

====
